---- MODULE Spec2Model ----
(***************************************************************************)
(* Wingman: the orchestration subsystem.                                   *)
(*   - the SQLite store (src/wingman/database.py): seen_items,             *)
(*     watcher_state;                                                      *)
(*   - the scheduler (src/wingman/scheduler.py): one interval job per      *)
(*     watcher, the run body _run_watcher and the per-item pipeline.       *)
(* The two main specifications:                                            *)
(*   StoreSpec  the Database methods on seen_items called with arbitrary   *)
(*              arguments in arbitrary order (each SQL statement is        *)
(*              atomic, so interleaved callers are a sequence of           *)
(*              statements);                                               *)
(*   Spec       the scheduler driving the watchers against the store.      *)
(* The other specifications vary the environment of the scheduler: the    *)
(* notifiers (DispatchSpec), the retry wrapper (RetrySpec, ForgeSpec),     *)
(* two watchers side by side (PairSpec, CountSpec, LiveSpec), two          *)
(* processes on one store (TwinSpec), failing Database calls (FaultSpec),  *)
(* shutdown (LifecycleSpec), the token cache (TokenSpec) and the metadata  *)
(* of watcher_state (MetaSpec).                                            *)
(***************************************************************************)
EXTENDS Integers, Sequences, FiniteSets, TLC

VARIABLES
    seen_items,        \* table seen_items, rows in insertion (id) order
    watcher_state,     \* table watcher_state: watcher_name -> row (partial)
    now,               \* datetime.now(timezone.utc), a logical clock
    runs,              \* per watcher: the in-flight instances of _run_watcher
    job,               \* the watcher whose job the specification follows
    first_run_notify,  \* config.first_run_notify, fixed at start
    failedSince,       \* history: failed runs since the last successful run
    everSucceeded,     \* history: a successful run was recorded
    marked,            \* history: keys for which a mark_seen call completed
    last_op,           \* history: the last Database call (StoreSpec)
    config,            \* config.notifications, fixed at start
    smtp,              \* per notifier: how its SMTP sessions end
    rt,                \* one call of a function wrapped by retry (RetrySpec)
    scheduler,         \* self.scheduler: its state and the last tick it handled
    db                 \* self.db: the connection and the forge_tokens table

vars == <<seen_items, watcher_state, now, runs, job, first_run_notify,
          failedSince, everSucceeded, marked, last_op, config, smtp, rt,
          scheduler, db>>

(***************************************************************************)
(* Bounds of the model.                                                    *)
(***************************************************************************)
MaxBatch == 2
MaxClock == 1
MaxFailures == 10
MaxAttempts == 3

MaxPairFailures == 1

MaxSaves == 3

(***************************************************************************)
(* Values.  A nullable column is an option: <<>> is NULL, <<v>> is v.      *)
(***************************************************************************)
None == <<>>

Some(v) == <<v>>

Watchers == {"GitHubWatcher", "ForgeWatcher"}

SourceOf(w) == IF w = "GitHubWatcher" THEN "github" ELSE "forge"

IdKey(source, source_id, item_type) ==
    [source |-> source, source_id |-> source_id, item_type |-> item_type]

\* identity keys the watchers can produce
KeysOf(w) ==
    IF w = "GitHubWatcher"
    THEN {IdKey("github", "repo#issue1", "issue"),
          IdKey("github", "repo#comment1", "comment")}
    ELSE {IdKey("forge", "mod#version_1", "mod_update")}

\* identity keys the Database methods are called with in StoreSpec; they
\* differ in item_type only
StoreKeys ==
    {IdKey("github", "a", "issue"),
     IdKey("github", "a", "comment")}

\* the remaining fields of an item (repo_or_context, title, body, author,
\* url, created_at), as one value
Contents == {"text1", "text2"}

WatcherItem(key, content) == [key |-> key, content |-> content]

TriageResult(classification, severity, summary) ==
    [classification |-> classification, severity |-> severity,
     summary |-> summary]

fallback_result == TriageResult("unclassified", "unknown", "AI triage unavailable")

\* a JSON null in the classifier's answer: json.loads gives None, and
\* data.get(key, default) returns it as it is
JsonNull == "null"

is_str(v) == v # JsonNull

\* what the classifier answers when it answers: the values of the JSON
\* object it returned, which analyze does not check to be strings
TriageAnswers ==
    {TriageResult("bug_report", "high", "summary"),
     TriageResult(JsonNull, "high", "summary")}

\* TriageAnalyzer.analyze: it returns an answer, or returns its fallback
\* (no API key, JSONDecodeError, APIError), or raises anything else
AnalyzeOutcomes ==
    {[raised |-> FALSE, failed |-> FALSE, result |-> a] : a \in TriageAnswers}
        \cup {[raised |-> FALSE, failed |-> TRUE, result |-> fallback_result],
              [raised |-> TRUE, failed |-> TRUE, result |-> fallback_result]}

\* variant: the try/except around triage.analyze is missing
analyze_or_fallback_uncaught(outcome) == outcome

\* try: result = self.triage.analyze(item)
\* except Exception: result = TriageResult("unclassified", "unknown", ...)
analyze_or_fallback(outcome) ==
    IF outcome.raised
    THEN [raised |-> FALSE, failed |-> TRUE, result |-> fallback_result]
    ELSE outcome

\* format_notification raises on a triage value that is not a string
\* (classification.replace, severity.upper, _html_escape(summary))
format_notification_raises(result) ==
    \/ ~ is_str(result.classification)
    \/ ~ is_str(result.severity)
    \/ ~ is_str(result.summary)

(***************************************************************************)
(* Database: seen_items.                                                   *)
(***************************************************************************)
\* a Python value bound to a statement parameter: None is stored as NULL
bind(v) == IF is_str(v) THEN Some(v) ELSE None

KeyOfRow(row) == IdKey(row.source, row.source_id, row.item_type)

RowsOf(table, key) == {n \in DOMAIN table : KeyOfRow(table[n]) = key}

is_seen(table, key) ==
    \E n \in DOMAIN table :
        /\ table[n].source = key.source
        /\ table[n].source_id = key.source_id
        /\ table[n].item_type = key.item_type

SeenRow(item, t) ==
    [source |-> item.key.source, source_id |-> item.key.source_id,
     item_type |-> item.key.item_type, content |-> item.content,
     classification |-> None, severity |-> None, summary |-> None,
     notified_at |-> None, first_seen_at |-> t]

\* variant: the unique index was never created
idx_seen_source_missing(table, row) == FALSE

\* variant: the unique index leaves out item_type
idx_seen_source_no_type(table, row) ==
    \E n \in DOMAIN table :
        /\ table[n].source = row.source
        /\ table[n].source_id = row.source_id

\* a conflict on the unique index idx_seen_source(source, source_id, item_type)
idx_seen_source(table, row) ==
    \E n \in DOMAIN table :
        /\ table[n].source = row.source
        /\ table[n].source_id = row.source_id
        /\ table[n].item_type = row.item_type

\* variant: the item is not stored before it is notified
mark_seen_not_stored(table, item, t) == table

\* variant: INSERT OR REPLACE, the conflicting row is deleted and a new one
\* is inserted
mark_seen_or_replace(table, item, t) ==
    Append(SelectSeq(table, LAMBDA r : KeyOfRow(r) # item.key), SeenRow(item, t))

\* INSERT OR IGNORE INTO seen_items
mark_seen(table, item, t) ==
    IF idx_seen_source(table, SeenRow(item, t))
    THEN table
    ELSE Append(table, SeenRow(item, t))

\* variant: the WHERE clause leaves out item_type
update_triage_no_type(table, key, result, t) ==
    [n \in DOMAIN table |->
        IF /\ table[n].source = key.source
           /\ table[n].source_id = key.source_id
        THEN [table[n] EXCEPT !.classification = bind(result.classification),
                              !.severity = bind(result.severity),
                              !.summary = bind(result.summary),
                              !.notified_at = Some(t)]
        ELSE table[n]]

\* UPDATE seen_items SET classification, severity, summary, notified_at
\*  WHERE source=? AND source_id=? AND item_type=?
update_triage(table, key, result, t) ==
    [n \in DOMAIN table |->
        IF /\ table[n].source = key.source
           /\ table[n].source_id = key.source_id
           /\ table[n].item_type = key.item_type
        THEN [table[n] EXCEPT !.classification = bind(result.classification),
                              !.severity = bind(result.severity),
                              !.summary = bind(result.summary),
                              !.notified_at = Some(t)]
        ELSE table[n]]

(***************************************************************************)
(* Database: watcher_state.  A dict is a function on its keys.             *)
(***************************************************************************)
EmptyDict == <<>>

\* variant: the patch replaces the stored dict
dict_update_replace(d, patch) == patch

dict_update(d, patch) ==
    [k \in (DOMAIN d) \cup (DOMAIN patch) |->
        IF k \in DOMAIN patch THEN patch[k] ELSE d[k]]

\* json.dumps of a dict with string keys: the text of a JSON object, as the
\* set of its members
json_dumps(d) == {<<k, d[k]>> : k \in DOMAIN d}

\* json.loads of the text of a JSON object
json_loads(text) ==
    [k \in {m[1] : m \in text} |-> (CHOOSE m \in text : m[1] = k)[2]]

\* `if metadata:` is false for None and for an empty dict
truthy(metadata) == DOMAIN metadata # {}

\* SELECT * FROM watcher_state WHERE watcher_name=?, metadata decoded
get_watcher_state(table, watcher_name) ==
    IF watcher_name \in DOMAIN table
    THEN Some([table[watcher_name] EXCEPT !.metadata = json_loads(@)])
    ELSE None

\* merged_meta.update(metadata)
merged_meta(d, patch) == IF truthy(patch) THEN dict_update(d, patch) ELSE d

\* the INSERT branch of update_watcher_state (existing is None)
uws_insert(table, watcher_name, successful, metadata, t) ==
    [x \in (DOMAIN table) \cup {watcher_name} |->
        IF x = watcher_name
        THEN [last_check_at |-> Some(t),
              last_successful_at |-> IF successful THEN Some(t) ELSE None,
              consecutive_failures |-> IF successful THEN 0 ELSE 1,
              metadata |-> IF truthy(metadata) THEN json_dumps(metadata)
                           ELSE json_dumps(EmptyDict)]
        ELSE table[x]]

\* variant: the UPDATE counts every run, the reset on success is missing
uws_update_no_reset(table, watcher_name, successful, metadata, t, existing) ==
    [x \in DOMAIN table |->
        IF x = watcher_name
        THEN [last_check_at |-> Some(t),
              last_successful_at |->
                  IF successful THEN Some(t) ELSE table[x].last_successful_at,
              consecutive_failures |-> existing.consecutive_failures + 1,
              metadata |-> json_dumps(merged_meta(existing.metadata, metadata))]
        ELSE table[x]]

\* variant: the UPDATE writes last_successful_at as the INSERT does, NULL
\* when the run failed
uws_update_clears(table, watcher_name, successful, metadata, t, existing) ==
    [x \in DOMAIN table |->
        IF x = watcher_name
        THEN [last_check_at |-> Some(t),
              last_successful_at |-> IF successful THEN Some(t) ELSE None,
              consecutive_failures |->
                  IF successful THEN 0 ELSE existing.consecutive_failures + 1,
              metadata |-> json_dumps(merged_meta(existing.metadata, metadata))]
        ELSE table[x]]

\* the UPDATE branch of update_watcher_state (existing is the row read before)
uws_update(table, watcher_name, successful, metadata, t, existing) ==
    [x \in DOMAIN table |->
        IF x = watcher_name
        THEN [last_check_at |-> Some(t),
              last_successful_at |->
                  IF successful THEN Some(t) ELSE table[x].last_successful_at,
              consecutive_failures |->
                  IF successful THEN 0 ELSE existing.consecutive_failures + 1,
              metadata |-> json_dumps(merged_meta(existing.metadata, metadata))]
        ELSE table[x]]

\* variant: the UPDATE has no WHERE clause
update_watcher_state_no_where(table, watcher_name, successful, metadata, t, existing) ==
    IF existing = None
    THEN IF watcher_name \in DOMAIN table
         THEN [raised |-> TRUE, table |-> table]
         ELSE [raised |-> FALSE,
               table |-> uws_insert(table, watcher_name, successful, metadata, t)]
    ELSE [raised |-> FALSE,
          table |-> [x \in DOMAIN table |->
                        uws_update(table, x, successful, metadata, t,
                                   existing[1])[x]]]

\* the statement update_watcher_state executes after its read of `existing`;
\* an INSERT that hits the primary key raises and changes nothing
update_watcher_state(table, watcher_name, successful, metadata, t, existing) ==
    IF existing = None
    THEN IF watcher_name \in DOMAIN table
         THEN [raised |-> TRUE, table |-> table]
         ELSE [raised |-> FALSE,
               table |-> uws_insert(table, watcher_name, successful, metadata, t)]
    ELSE [raised |-> FALSE,
          table |-> uws_update(table, watcher_name, successful, metadata, t,
                               existing[1])]

get_consecutive_failures(table, watcher_name) ==
    IF get_watcher_state(table, watcher_name) = None
    THEN 0
    ELSE get_watcher_state(table, watcher_name)[1].consecutive_failures

\* variant: only the missing row counts as first run
is_first_run_row_only(table, watcher_name) ==
    get_watcher_state(table, watcher_name) = None

is_first_run(table, watcher_name) ==
    \/ get_watcher_state(table, watcher_name) = None
    \/ get_watcher_state(table, watcher_name)[1].last_successful_at = None

(***************************************************************************)
(* Notification channels and dispatch.                                     *)
(***************************************************************************)
\* self.notifiers, in the order _send_notification goes through them
Notifiers == <<"EmailNotifier", "SmsNotifier">>

NotificationConfig(smtp_email, smtp_password, recipient_email, sms_gateway) ==
    [smtp_email |-> smtp_email, smtp_password |-> smtp_password,
     recipient_email |-> recipient_email, sms_gateway |-> sms_gateway]

\* everything set, and one setting at a time left empty
FullConfig == NotificationConfig("me@mail", "secret", "to@mail", "number@gateway")

NotificationConfigs ==
    {FullConfig,
     [FullConfig EXCEPT !.smtp_email = ""],
     [FullConfig EXCEPT !.smtp_password = ""],
     [FullConfig EXCEPT !.recipient_email = ""],
     [FullConfig EXCEPT !.sms_gateway = ""]}

\* how an SMTP session ends: it delivers, it raises smtplib.SMTPException
\* (protocol level), or it raises OSError (connection level: refused,
\* unreachable, name not resolved, timed out)
SmtpOutcomes == {"ok", "SMTPException", "OSError"}

HealthySmtp == [k \in DOMAIN Notifiers |-> "ok"]

\* try: with smtplib.SMTP(...) ...; return True
\* except smtplib.SMTPException: return False
smtp_session(outcome) ==
    [connected |-> TRUE,
     result |-> IF outcome = "ok" THEN "true"
                ELSE IF outcome = "SMTPException" THEN "false"
                ELSE "raised"]

\* variant: the recipient is not among the settings checked
EmailNotifier_configured_no_recipient(cfg) ==
    cfg.smtp_email # "" /\ cfg.smtp_password # ""

\* if not self.email or not self.password or not self.recipient
EmailNotifier_configured(cfg) ==
    cfg.smtp_email # "" /\ cfg.smtp_password # "" /\ cfg.recipient_email # ""

\* if not self.email or not self.password or not self.sms_gateway
SmsNotifier_configured(cfg) ==
    cfg.smtp_email # "" /\ cfg.smtp_password # "" /\ cfg.sms_gateway # ""

EmailNotifier_send(cfg, outcome) ==
    IF ~ EmailNotifier_configured(cfg)
    THEN [connected |-> FALSE, result |-> "false"]
    ELSE smtp_session(outcome)

SmsNotifier_send(cfg, outcome) ==
    IF ~ SmsNotifier_configured(cfg)
    THEN [connected |-> FALSE, result |-> "false"]
    ELSE smtp_session(outcome)

\* notifier.send(notification), as _send_notification sees it: the notifier,
\* whether it opened an SMTP session, and "true", "false" or "raised"
send(k, cfg, env) ==
    LET res == IF Notifiers[k] = "EmailNotifier"
               THEN EmailNotifier_send(cfg, env[k])
               ELSE SmsNotifier_send(cfg, env[k])
    IN  [notifier |-> Notifiers[k], connected |-> res.connected,
         result |-> res.result]

\* variant: the loop ends at the first notifier that does not deliver
send_notification_stops(cfg, env) ==
    LET log == [k \in DOMAIN Notifiers |-> send(k, cfg, env)]
        F == {k \in DOMAIN Notifiers : log[k].result # "true"}
    IN  [raised |-> FALSE,
         log |-> IF F = {} THEN log
                 ELSE SubSeq(log, 1, CHOOSE k \in F : \A j \in F : k <= j)]

\* variant: no try/except around notifier.send
send_notification_uncaught(cfg, env) ==
    LET log == [k \in DOMAIN Notifiers |-> send(k, cfg, env)]
        R == {k \in DOMAIN Notifiers : log[k].result = "raised"}
    IN  [raised |-> R # {},
         log |-> IF R = {} THEN log
                 ELSE SubSeq(log, 1, CHOOSE k \in R : \A j \in R : k <= j)]

\* _send_notification: for notifier in self.notifiers: try: notifier.send(...)
\* except Exception: log it.  The result is the log of the send calls made
\* and whether an exception left _send_notification.
send_notification(cfg, env) ==
    [raised |-> FALSE, log |-> [k \in DOMAIN Notifiers |-> send(k, cfg, env)]]

Delivered(log) == Cardinality({k \in DOMAIN log : log[k].result = "true"})

(***************************************************************************)
(* The scheduler object and the Database object after construction.        *)
(***************************************************************************)
NoTick == [run_times |-> <<>>, outcome |-> "none"]

\* BlockingScheduler after start(): running; tick is the last wake-up for
\* the job: the run times that were due, as seconds of lateness, oldest
\* first, and what became of them
RunningScheduler == [state |-> "running", tick |-> NoTick]

\* Database after __init__: _conn is set (conn), by the first _connect
\* (connects); forge_tokens is the table as statements on the connection
\* see it, committed is the table as of the last commit; saving is where
\* a save_forge_token call stands, saved and last are the number of calls
\* that returned and the token of the last of them, got is what the last
\* get_forge_token returned
OpenDatabase ==
    [conn |-> TRUE, connects |-> 1, closed |-> FALSE,
     forge_tokens |-> <<>>, committed |-> <<>>,
     saving |-> [pc |-> "idle", token |-> ""], saved |-> 0, last |-> "",
     got |-> None]

\* the tokens the Forge login returns
Tokens == {"token1", "token2", "token3"}

\* the rowid SQLite gives a row inserted into forge_tokens (id INTEGER
\* PRIMARY KEY): one more than the largest in the table
next_id(rows) ==
    IF rows = <<>> THEN 1
    ELSE 1 + (CHOOSE m \in {rows[k].id : k \in DOMAIN rows} :
                 \A k \in DOMAIN rows : rows[k].id <= m)

\* SELECT token FROM forge_tokens ORDER BY id DESC LIMIT 1;
\* row["token"] if row else None
get_forge_token(rows) ==
    IF rows = <<>> THEN "None"
    ELSE (CHOOSE r \in {rows[k] : k \in DOMAIN rows} :
             \A k \in DOMAIN rows : rows[k].id <= r.id).token

(***************************************************************************)
(* retry (src/wingman/utils/retry.py): one call of a wrapped function.     *)
(* rt.events is what the call has done so far, in order: the calls of the  *)
(* wrapped function with their outcome and the sleeps with their delay.    *)
(***************************************************************************)
BaseDelays == {1, 5, 10}

BackoffFactors == {1, 2}

RECURSIVE Pow(_, _)
Pow(b, e) == IF e = 0 THEN 1 ELSE b * Pow(b, e - 1)

\* an exception object: its class, and the call of func that raised it
Exc(kind, call) == [kind |-> kind, call |-> call]

CallEvent(outcome) == [ev |-> "call", outcome |-> outcome, delay |-> 0]

SleepEvent(delay) == [ev |-> "sleep", outcome |-> "", delay |-> delay]

NewRetry(pc, max_attempts, base_delay, backoff_factor) ==
    [pc |-> pc, max_attempts |-> max_attempts, base_delay |-> base_delay,
     backoff_factor |-> backoff_factor, attempt |-> 0, events |-> <<>>,
     last_exception |-> None, raised |-> None, returned |-> None]

\* no wrapped call is in progress
IdleRetry == NewRetry("idle", 2, 10, 2)

Calls(events) == Cardinality({k \in DOMAIN events : events[k].ev = "call"})

Sleeps(events) == SelectSeq(events, LAMBDA x : x.ev = "sleep")

\* variant: the delay does not grow with the attempt
retry_delay_flat(base_delay, backoff_factor, attempt) == base_delay

\* delay = base_delay * (backoff_factor ** attempt)
retry_delay(base_delay, backoff_factor, attempt) ==
    base_delay * Pow(backoff_factor, attempt)

\* variant: the comparison is the wrong way round
retry_sleeps_after_never(attempt, max_attempts) == attempt > max_attempts - 1

\* if attempt < max_attempts - 1
retry_sleeps_after(attempt, max_attempts) == attempt < max_attempts - 1

\* return func(*args, **kwargs)
RetryAttemptReturns ==
    /\ rt.pc = "loop"
    /\ rt.attempt < rt.max_attempts
    /\ rt' = [rt EXCEPT !.pc = "returned",
                        !.events = Append(@, CallEvent("returns")),
                        !.returned = Some(Calls(rt.events) + 1)]
    /\ UNCHANGED <<seen_items, watcher_state, now, runs, job, first_run_notify,
                   failedSince, everSucceeded, marked, last_op, config, smtp,
                   scheduler, db>>

\* func raises one of `exceptions`: remember it, sleep unless this was the
\* last attempt, go round the loop
RetryAttemptRetryable ==
    /\ rt.pc = "loop"
    /\ rt.attempt < rt.max_attempts
    /\ LET called == Append(rt.events, CallEvent("retryable"))
           delay == retry_delay(rt.base_delay, rt.backoff_factor, rt.attempt)
       IN  rt' = [rt EXCEPT
                    !.last_exception = Some(Exc("retryable", Calls(rt.events) + 1)),
                    !.events = IF retry_sleeps_after(rt.attempt, rt.max_attempts)
                               THEN Append(called, SleepEvent(delay))
                               ELSE called,
                    !.attempt = @ + 1]
    /\ UNCHANGED <<seen_items, watcher_state, now, runs, job, first_run_notify,
                   failedSince, everSucceeded, marked, last_op, config, smtp,
                   scheduler, db>>

\* variant: except Exception, whatever `exceptions` says
retry_catches_all(kind) == TRUE

\* except exceptions as e
retry_catches(kind) == kind = "retryable"

\* func raises an exception that is not one of `exceptions`: it leaves the
\* wrapper
RetryAttemptOther ==
    /\ rt.pc = "loop"
    /\ rt.attempt < rt.max_attempts
    /\ LET called == Append(rt.events, CallEvent("other"))
           e == Exc("other", Calls(rt.events) + 1)
       IN  rt' = IF retry_catches("other")
                 THEN [rt EXCEPT
                         !.last_exception = Some(e),
                         !.events =
                            IF retry_sleeps_after(rt.attempt, rt.max_attempts)
                            THEN Append(called,
                                    SleepEvent(retry_delay(rt.base_delay,
                                               rt.backoff_factor, rt.attempt)))
                            ELSE called,
                         !.attempt = @ + 1]
                 ELSE [rt EXCEPT !.pc = "raised", !.events = called,
                                 !.raised = Some(e)]
    /\ UNCHANGED <<seen_items, watcher_state, now, runs, job, first_run_notify,
                   failedSince, everSucceeded, marked, last_op, config, smtp,
                   scheduler, db>>

\* the loop is over: raise last_exception (raise None is a TypeError)
RetryRaiseLast ==
    /\ rt.pc = "loop"
    /\ rt.attempt >= rt.max_attempts
    /\ rt' = [rt EXCEPT !.pc = "raised",
                        !.raised = IF rt.last_exception = None
                                   THEN Some(Exc("TypeError", 0))
                                   ELSE rt.last_exception]
    /\ UNCHANGED <<seen_items, watcher_state, now, runs, job, first_run_notify,
                   failedSince, everSucceeded, marked, last_op, config, smtp,
                   scheduler, db>>

(***************************************************************************)
(* RetrySpec: a call of a function wrapped by retry, for every             *)
(* max_attempts up to MaxAttempts, with the wrapped function returning or  *)
(* raising as it likes on each call.                                       *)
(***************************************************************************)
RetryInit ==
    /\ seen_items = <<>>
    /\ watcher_state = <<>>
    /\ now = 0
    /\ runs = [w \in Watchers |-> <<>>]
    /\ job = "ForgeWatcher"
    /\ first_run_notify = FALSE
    /\ failedSince = [w \in Watchers |-> 0]
    /\ everSucceeded = [w \in Watchers |-> FALSE]
    /\ marked = {}
    /\ last_op = [op |-> "none"]
    /\ config = FullConfig
    /\ smtp = HealthySmtp
    /\ \E m \in (-1)..MaxAttempts, d \in BaseDelays, f \in BackoffFactors :
          rt = NewRetry("loop", m, d, f)
    /\ scheduler = RunningScheduler
    /\ db = OpenDatabase

RetryNext ==
    \/ RetryAttemptReturns
    \/ RetryAttemptRetryable
    \/ RetryAttemptOther
    \/ RetryRaiseLast

RetrySpec == RetryInit /\ [][RetryNext]_vars

(***************************************************************************)
(* The clock.                                                              *)
(***************************************************************************)
AdvanceClock ==
    /\ now < MaxClock
    /\ now' = now + 1
    /\ UNCHANGED <<seen_items, watcher_state, runs, job, first_run_notify, failedSince, everSucceeded, marked,
                   last_op,
                   config, smtp, rt,
                   scheduler, db>>

(***************************************************************************)
(* StoreSpec: the Database methods on seen_items, any caller, any order.   *)
(***************************************************************************)
StoreInit ==
    /\ seen_items = <<>>
    /\ watcher_state = <<>>
    /\ now = 0
    /\ runs = [w \in Watchers |-> <<>>]
    /\ job = "GitHubWatcher"
    /\ first_run_notify = FALSE
    /\ failedSince = [w \in Watchers |-> 0]
    /\ everSucceeded = [w \in Watchers |-> FALSE]
    /\ marked = {}
    /\ last_op = [op |-> "none"]
    /\ config = FullConfig
    /\ smtp = HealthySmtp
    /\ rt = IdleRetry
    /\ scheduler = RunningScheduler
    /\ db = OpenDatabase

CallMarkSeen ==
    \E key \in StoreKeys, content \in Contents :
        /\ seen_items' = mark_seen(seen_items, WatcherItem(key, content), now)
        /\ marked' = marked \cup {key}
        /\ last_op' = [op |-> "mark_seen", key |-> key, content |-> content,
                       existed |-> is_seen(seen_items, key)]
        /\ UNCHANGED <<watcher_state, now, runs, job, first_run_notify,
                       failedSince, everSucceeded,
                   config, smtp, rt,
                   scheduler, db>>

CallUpdateTriage ==
    \E key \in StoreKeys, result \in TriageAnswers \cup {fallback_result} :
        /\ seen_items' = update_triage(seen_items, key, result, now)
        /\ last_op' = [op |-> "update_triage", key |-> key,
                       content |-> result.classification,
                       existed |-> is_seen(seen_items, key)]
        /\ UNCHANGED <<watcher_state, now, runs, job, first_run_notify,
                       failedSince, everSucceeded, marked,
                   config, smtp, rt,
                   scheduler, db>>

StoreNext ==
    \/ CallMarkSeen
    \/ CallUpdateTriage
    \/ AdvanceClock

StoreSpec == StoreInit /\ [][StoreNext]_vars

(***************************************************************************)
(* MetaSpec: update_watcher_state called with arbitrary metadata patches.  *)
(***************************************************************************)
MetaKeys == {"cursor", "etag"}

MetaValues == {"v1", "v2"}

\* the metadata arguments: None (the empty dict here) and every dict over
\* MetaKeys
Patches == UNION {[S -> MetaValues] : S \in SUBSET MetaKeys}

MetaInit == StoreInit

\* one call of update_watcher_state: the read of `existing`, the INSERT or
\* UPDATE and the commit
CallUpdateWatcherState ==
    \E successful \in BOOLEAN, metadata \in Patches :
        /\ successful \/ get_consecutive_failures(watcher_state, job) < MaxPairFailures
        /\ watcher_state' =
               update_watcher_state(watcher_state, job, successful, metadata,
                                    now, get_watcher_state(watcher_state, job)).table
        /\ last_op' = [op |-> "update_watcher_state", metadata |-> metadata,
                       existing |-> get_watcher_state(watcher_state, job)]
        /\ UNCHANGED <<seen_items, now, runs, job, first_run_notify,
                       failedSince, everSucceeded, marked,
                       config, smtp, rt,
                       scheduler, db>>

MetaNext ==
    \/ CallUpdateWatcherState
    \/ AdvanceClock

MetaSpec == MetaInit /\ [][MetaNext]_vars

(***************************************************************************)
(* The scheduler.  runs[w] is the sequence of instances of the job of      *)
(* watcher w that are executing _run_watcher; an instance is a record of   *)
(* the locals of _run_watcher and _process_item, its position pc, and what *)
(* it has dispatched so far.                                               *)
(***************************************************************************)
max_instances == 1

\* variant: the job admits a second instance
can_start_second(instances) == instances < max_instances + 1

\* the executor admits a run of a job while fewer than max_instances of it
\* are executing
can_start(instances) == instances < max_instances

NewRun ==
    [pc |-> "check", new_items |-> <<>>, i |-> 0, first_run |-> FALSE,
     result |-> fallback_result, successful |-> FALSE, t |-> 0,
     analyze |-> "none", existing |-> None, failures |-> 0, e |-> "",
     outcome |-> "running", sends |-> <<>>, delivered |-> 0,
     dispatched |-> <<>>, escalations |-> 0, recorded |-> 0]

Init ==
    /\ seen_items = <<>>
    /\ watcher_state = <<>>
    /\ now = 0
    /\ runs = [w \in Watchers |-> <<>>]
    /\ job \in Watchers
    /\ first_run_notify \in BOOLEAN
    /\ failedSince = [w \in Watchers |-> 0]
    /\ everSucceeded = [w \in Watchers |-> FALSE]
    /\ marked = {}
    /\ last_op = [op |-> "none"]
    /\ config = FullConfig
    /\ smtp = HealthySmtp
    /\ rt = IdleRetry
    /\ scheduler = RunningScheduler
    /\ db = OpenDatabase

\* the trigger of w fires and the run is submitted
TickStart(w) ==
    /\ can_start(Len(runs[w]))
    /\ runs' = [runs EXCEPT ![w] = Append(@, NewRun)]
    /\ UNCHANGED <<seen_items, watcher_state, now, job, first_run_notify,
                   failedSince, everSucceeded, marked, last_op,
                   config, smtp, rt,
                   scheduler, db>>

\* the trigger of w fires while max_instances runs of w are executing: the
\* run is skipped with a warning, nothing is queued and nothing changes
TickSkip(w) ==
    /\ ~ can_start(Len(runs[w]))
    /\ UNCHANGED vars

\* variant: check() returns what the source holds, without the is_seen test
NewItemsOf_unfiltered(w) == {WatcherItem(key, "text1") : key \in KeysOf(w)}

\* the items check() can return: not seen when it looks, possibly the same
\* key more than once
NewItemsOf(w) ==
    {WatcherItem(key, "text1") :
        key \in {k \in KeysOf(w) : ~ is_seen(seen_items, k)}}

SeqsUpTo(S, len) == UNION {[1..m -> S] : m \in 0..len}

\* the run enters the except branch of _run_watcher
Raise(r, error) ==
    [r EXCEPT !.pc = "uws_read", !.successful = FALSE, !.e = error,
              !.outcome = "failed", !.result = fallback_result,
              !.analyze = "none"]

\* the for loop of _run_watcher moves to item number i, or ends
LoopTo(r, i) ==
    IF i <= Len(r.new_items)
    THEN [r EXCEPT !.pc = "process_item", !.i = i, !.result = fallback_result,
                   !.analyze = "none"]
    ELSE [r EXCEPT !.pc = "uws_read", !.i = 0, !.successful = TRUE,
                   !.result = fallback_result, !.analyze = "none"]

CheckReturns(w, n) ==
    /\ runs[w][n].pc = "check"
    /\ \E batch \in SeqsUpTo(NewItemsOf(w), MaxBatch) :
          runs' = [runs EXCEPT ![w][n] =
                      [@ EXCEPT !.pc = "is_first_run", !.new_items = batch]]
    /\ UNCHANGED <<seen_items, watcher_state, now, job, first_run_notify,
                   failedSince, everSucceeded, marked, last_op,
                   config, smtp, rt,
                   scheduler, db>>

CheckRaises(w, n) ==
    /\ runs[w][n].pc = "check"
    /\ failedSince[w] < MaxFailures
    /\ runs' = [runs EXCEPT ![w][n] = Raise(@, "check")]
    /\ UNCHANGED <<seen_items, watcher_state, now, job, first_run_notify,
                   failedSince, everSucceeded, marked, last_op,
                   config, smtp, rt,
                   scheduler, db>>

IsFirstRun(w, n) ==
    /\ runs[w][n].pc = "is_first_run"
    /\ runs' = [runs EXCEPT ![w][n] =
                  LoopTo([@ EXCEPT !.first_run = is_first_run(watcher_state, w)], 1)]
    /\ UNCHANGED <<seen_items, watcher_state, now, job, first_run_notify,
                   failedSince, everSucceeded, marked, last_op,
                   config, smtp, rt,
                   scheduler, db>>

\* _process_item up to mark_seen: triage.analyze inside its try/except, then
\* watcher.mark_seen; r.analyze records how the analyze call itself went
ProcessItemMark(w, n) ==
    LET r == runs[w][n]
        item == r.new_items[r.i]
    IN  /\ r.pc = "process_item"
        /\ \E outcome \in AnalyzeOutcomes :
              LET res == analyze_or_fallback(outcome)
                  called == [r EXCEPT !.analyze = IF outcome.failed
                                                  THEN "failed" ELSE "answer"]
              IN  IF res.raised
                  THEN /\ runs' = [runs EXCEPT ![w][n] =
                                      [Raise(called, "triage")
                                          EXCEPT !.analyze = called.analyze]]
                       /\ UNCHANGED <<seen_items, marked>>
                  ELSE /\ seen_items' = mark_seen(seen_items, item, now)
                       /\ marked' = marked \cup {item.key}
                       /\ runs' = [runs EXCEPT ![w][n] =
                                      [called EXCEPT !.pc = "update_triage",
                                                     !.result = res.result]]
        /\ UNCHANGED <<watcher_state, now, job, first_run_notify, failedSince,
                       everSucceeded, last_op,
                   config, smtp, rt,
                   scheduler, db>>

\* variant: the first-run snapshot alone decides, whatever the configuration
suppressed_always_on_first_run(first_run, notify) == first_run

\* variant: nothing is suppressed
suppressed_never(first_run, notify) == FALSE

\* if first_run and not self.config.first_run_notify: return
suppressed(first_run, notify) == first_run /\ ~ notify

\* _process_item from update_triage on, first run: seed only
ProcessItemSeed(w, n) ==
    LET r == runs[w][n]
        item == r.new_items[r.i]
    IN  /\ r.pc = "update_triage"
        /\ suppressed(r.first_run, first_run_notify)
        /\ seen_items' = update_triage(seen_items, item.key, r.result, now)
        /\ runs' = [runs EXCEPT ![w][n] = LoopTo(r, r.i + 1)]
        /\ UNCHANGED <<watcher_state, now, job, first_run_notify, failedSince,
                       everSucceeded, marked, last_op,
                   config, smtp, rt,
                   scheduler, db>>

\* _process_item from update_triage on: format_notification returns and
\* _send_notification hands the notification to the notifiers
ProcessItemNotify(w, n) ==
    LET r == runs[w][n]
        item == r.new_items[r.i]
    IN  /\ r.pc = "update_triage"
        /\ ~ suppressed(r.first_run, first_run_notify)
        /\ ~ format_notification_raises(r.result)
        /\ seen_items' = update_triage(seen_items, item.key, r.result, now)
        /\ LET d == send_notification(config, smtp)
               sent == [r EXCEPT !.dispatched = Append(@, item.key),
                                 !.sends = d.log,
                                 !.delivered = @ + Delivered(d.log)]
           IN  runs' = [runs EXCEPT ![w][n] =
                          IF d.raised THEN Raise(sent, "dispatch")
                          ELSE LoopTo(sent, r.i + 1)]
        /\ UNCHANGED <<watcher_state, now, job, first_run_notify, failedSince,
                       everSucceeded, marked, last_op,
                   config, smtp, rt,
                   scheduler, db>>

\* _process_item from update_triage on: format_notification raises
ProcessItemRenderRaises(w, n) ==
    LET r == runs[w][n]
        item == r.new_items[r.i]
    IN  /\ r.pc = "update_triage"
        /\ ~ suppressed(r.first_run, first_run_notify)
        /\ format_notification_raises(r.result)
        /\ seen_items' = update_triage(seen_items, item.key, r.result, now)
        /\ runs' = [runs EXCEPT ![w][n] = Raise(r, "render")]
        /\ UNCHANGED <<watcher_state, now, job, first_run_notify, failedSince,
                       everSucceeded, marked, last_op,
                   config, smtp, rt,
                   scheduler, db>>

\* update_watcher_state: now = datetime.now(); existing = get_watcher_state()
UwsRead(w, n) ==
    /\ runs[w][n].pc = "uws_read"
    /\ runs' = [runs EXCEPT ![w][n] =
                  [@ EXCEPT !.pc = "uws_write", !.t = now,
                            !.existing = get_watcher_state(watcher_state, w)]]
    /\ UNCHANGED <<seen_items, watcher_state, now, job, first_run_notify,
                   failedSince, everSucceeded, marked, last_op,
                   config, smtp, rt,
                   scheduler, db>>

\* update_watcher_state: the INSERT or UPDATE, and where _run_watcher goes
\* from there
UwsWrite(w, n) ==
    LET r == runs[w][n]
        res == update_watcher_state(watcher_state, w, r.successful,
                                    EmptyDict, r.t, r.existing)
        back == [r EXCEPT !.t = 0, !.existing = None,
                          !.recorded = IF res.raised THEN @ ELSE @ + 1]
    IN  /\ r.pc = "uws_write"
        /\ watcher_state' = res.table
        /\ everSucceeded' =
              [everSucceeded EXCEPT ![w] = @ \/ (r.successful /\ ~ res.raised)]
        /\ runs' = [runs EXCEPT ![w][n] =
              IF res.raised
              THEN IF r.successful
                   THEN Raise(back, "store")
                   ELSE [back EXCEPT !.pc = "done", !.outcome = "raised"]
              ELSE IF r.successful
                   THEN [back EXCEPT !.pc = "done", !.outcome = "success"]
                   ELSE [back EXCEPT !.pc = "get_failures"]]
        /\ UNCHANGED <<seen_items, now, job, first_run_notify, failedSince, marked,
                       last_op,
                   config, smtp, rt,
                   scheduler, db>>

\* variant: every failure from the fifth on escalates
should_escalate_every(failures) == failures >= 5

\* variant: only the fifth failure escalates
should_escalate_fifth(failures) == failures = 5

\* if failures >= 5 and failures % 5 == 0
should_escalate(failures) == failures >= 5 /\ failures % 5 = 0

GetFailures(w, n) ==
    LET r == runs[w][n]
        failures == get_consecutive_failures(watcher_state, w)
    IN  /\ r.pc = "get_failures"
        /\ runs' = [runs EXCEPT ![w][n] =
              [r EXCEPT !.failures = failures,
                        !.pc = IF should_escalate(failures)
                               THEN "notify_failure" ELSE "done"]]
        /\ UNCHANGED <<seen_items, watcher_state, now, job, first_run_notify,
                       failedSince, everSucceeded, marked, last_op,
                   config, smtp, rt,
                   scheduler, db>>

\* _notify_watcher_failure: one meta-notification through _send_notification
NotifyFailure(w, n) ==
    LET r == runs[w][n]
        d == send_notification(config, smtp)
    IN  /\ r.pc = "notify_failure"
        /\ runs' = [runs EXCEPT ![w][n] =
              [r EXCEPT !.escalations = @ + 1, !.pc = "done",
                        !.sends = d.log,
                        !.delivered = @ + Delivered(d.log),
                        !.outcome = IF d.raised THEN "raised" ELSE @]]
        /\ UNCHANGED <<seen_items, watcher_state, now, job, first_run_notify,
                       failedSince, everSucceeded, marked, last_op,
                   config, smtp, rt,
                   scheduler, db>>

RemoveAt(seq, n) ==
    [m \in 1..(Len(seq) - 1) |-> IF m < n THEN seq[m] ELSE seq[m + 1]]

\* _run_watcher returns and the executor releases the instance
Finish(w, n) ==
    LET r == runs[w][n]
    IN  /\ r.pc = "done"
        /\ runs' = [runs EXCEPT ![w] = RemoveAt(@, n)]
        /\ failedSince' = [failedSince EXCEPT ![w] =
              IF r.outcome = "success" THEN 0 ELSE @ + 1]
        /\ UNCHANGED <<seen_items, watcher_state, now, job, first_run_notify,
                       everSucceeded, marked, last_op,
                   config, smtp, rt,
                   scheduler, db>>

\* Spec follows the job of one watcher, whichever it is, with the jobs of
\* the other watchers idle
Next ==
    \/ AdvanceClock
    \/ TickStart(job)
    \/ TickSkip(job)
    \/ \E n \in DOMAIN runs[job] : CheckReturns(job, n)
    \/ \E n \in DOMAIN runs[job] : CheckRaises(job, n)
    \/ \E n \in DOMAIN runs[job] : IsFirstRun(job, n)
    \/ \E n \in DOMAIN runs[job] : ProcessItemMark(job, n)
    \/ \E n \in DOMAIN runs[job] : ProcessItemSeed(job, n)
    \/ \E n \in DOMAIN runs[job] : ProcessItemNotify(job, n)
    \/ \E n \in DOMAIN runs[job] : ProcessItemRenderRaises(job, n)
    \/ \E n \in DOMAIN runs[job] : UwsRead(job, n)
    \/ \E n \in DOMAIN runs[job] : UwsWrite(job, n)
    \/ \E n \in DOMAIN runs[job] : GetFailures(job, n)
    \/ \E n \in DOMAIN runs[job] : NotifyFailure(job, n)
    \/ \E n \in DOMAIN runs[job] : Finish(job, n)

Spec == Init /\ [][Next]_vars

(***************************************************************************)
(* DispatchSpec: the scheduler with first_run_notify on, any notification  *)
(* configuration, and for each notifier SMTP sessions that deliver, fail   *)
(* at protocol level or fail at connection level.                          *)
(***************************************************************************)
DispatchInit ==
    /\ seen_items = <<>>
    /\ watcher_state = <<>>
    /\ now = 0
    /\ runs = [w \in Watchers |-> <<>>]
    /\ job = "GitHubWatcher"
    /\ first_run_notify = TRUE
    /\ failedSince = [w \in Watchers |-> 0]
    /\ everSucceeded = [w \in Watchers |-> FALSE]
    /\ marked = {}
    /\ last_op = [op |-> "none"]
    /\ config \in NotificationConfigs
    /\ smtp \in [DOMAIN Notifiers -> SmtpOutcomes]
    /\ rt = IdleRetry
    /\ scheduler = RunningScheduler
    /\ db = OpenDatabase

DispatchNext ==
    \/ TickStart(job)
    \/ TickSkip(job)
    \/ \E n \in DOMAIN runs[job] : CheckReturns(job, n)
    \/ \E n \in DOMAIN runs[job] : CheckRaises(job, n)
    \/ \E n \in DOMAIN runs[job] : IsFirstRun(job, n)
    \/ \E n \in DOMAIN runs[job] : ProcessItemMark(job, n)
    \/ \E n \in DOMAIN runs[job] : ProcessItemNotify(job, n)
    \/ \E n \in DOMAIN runs[job] : ProcessItemRenderRaises(job, n)
    \/ \E n \in DOMAIN runs[job] : UwsRead(job, n)
    \/ \E n \in DOMAIN runs[job] : UwsWrite(job, n)
    \/ \E n \in DOMAIN runs[job] : GetFailures(job, n)
    \/ \E n \in DOMAIN runs[job] : NotifyFailure(job, n)
    \/ \E n \in DOMAIN runs[job] : Finish(job, n)

DispatchSpec == DispatchInit /\ [][DispatchNext]_vars

(***************************************************************************)
(* Properties of the store (StoreSpec).                                    *)
(***************************************************************************)

\* C2: after any number of mark_seen calls, in any order and by any callers,
\* seen_items holds at most one row per identity key
\* (source, source_id, item_type).
C2_Uniqueness ==
    \A m, n \in DOMAIN seen_items :
        KeyOfRow(seen_items[m]) = KeyOfRow(seen_items[n]) => m = n

\* a mark_seen call was made for a key that was already stored, while
\* another key is stored too
C2_Witness ==
    /\ last_op.op = "mark_seen"
    /\ last_op.existed
    /\ Len(seen_items) = Cardinality(StoreKeys)

\* C3: once mark_seen(k) has completed, is_seen(k) is true, at once and in
\* every later state: no row of seen_items is ever removed.
C3_SeenForever ==
    \A key \in marked : is_seen(seen_items, key)

\* every key has been marked and further calls have been made since
C3_Witness ==
    /\ marked = StoreKeys
    /\ last_op.op = "update_triage"
    /\ now > 0

\* C4: mark_seen is first-write-wins: a mark_seen call for a key that already
\* has a row leaves the whole table as it was (that row with its content,
\* first_seen_at, classification, severity, summary, notified_at, and every
\* other row).
C4_FirstWriteWins ==
    [][(last_op'.op = "mark_seen" /\ is_seen(seen_items, last_op'.key))
          => seen_items' = seen_items]_vars

\* a mark_seen call with other content was made for a key whose row was
\* already triaged
C4_Witness ==
    /\ last_op.op = "mark_seen"
    /\ last_op.existed
    /\ \E n \in DOMAIN seen_items :
          /\ KeyOfRow(seen_items[n]) = last_op.key
          /\ seen_items[n].content # last_op.content
          /\ seen_items[n].classification # None
          /\ seen_items[n].first_seen_at < now

\* C5: update_triage creates no row and changes no row of another key; for
\* a key with no row it therefore changes nothing.
C5_UpdateTriageFrame ==
    [][last_op'.op = "update_triage"
          => /\ Len(seen_items') = Len(seen_items)
             /\ \A n \in DOMAIN seen_items :
                   KeyOfRow(seen_items[n]) # last_op'.key
                      => seen_items'[n] = seen_items[n]]_vars

\* update_triage was called for a key with no row while another key had one
C5_Witness ==
    /\ last_op.op = "update_triage"
    /\ ~ last_op.existed
    /\ ~ is_seen(seen_items, last_op.key)
    /\ seen_items # <<>>

(***************************************************************************)
(* Properties of the scheduler (Spec).                                     *)
(***************************************************************************)
last_successful_at(table, w) ==
    IF w \in DOMAIN table THEN table[w].last_successful_at ELSE None

KeysIn(items) == {items[m].key : m \in DOMAIN items}

KeySeq(items) == [m \in DOMAIN items |-> items[m].key]

RowsFrom(table, source) == {m \in DOMAIN table : table[m].source = source}

\* C1: at most one run of a watcher is in flight at any time; a tick that
\* comes while the run is executing starts nothing, then or later.
C1_OneRunPerWatcher ==
    \A w \in Watchers : Len(runs[w]) <= 1

\* a run is in the middle of its batch and a tick that comes now is skipped
C1_Witness ==
    \E w \in Watchers :
        /\ Len(runs[w]) = 1
        /\ runs[w][1].pc = "update_triage"
        /\ runs[w][1].i = 2
        /\ ENABLED TickSkip(w)

\* C6: when no run of the watcher is in flight, consecutive_failures is the
\* number of failed runs since its last successful run (since the start if
\* none succeeded); a run that ends has added exactly 1 to it if it failed
\* and set it to 0 if it succeeded; it is never negative, and it reads 0
\* when the watcher has no row.
C6_FailureCount ==
    \A w \in Watchers :
        /\ get_consecutive_failures(watcher_state, w) >= 0
        /\ w \notin DOMAIN watcher_state
              => get_consecutive_failures(watcher_state, w) = 0
        /\ runs[w] = <<>>
              => get_consecutive_failures(watcher_state, w) = failedSince[w]
        /\ \A n \in DOMAIN runs[w] :
              runs[w][n].pc = "done"
                 => get_consecutive_failures(watcher_state, w) =
                       IF runs[w][n].outcome = "success"
                       THEN 0 ELSE failedSince[w] + 1

\* three runs in a row have failed after a successful one
C6_Witness ==
    \E w \in Watchers :
        /\ runs[w] = <<>>
        /\ everSucceeded[w]
        /\ failedSince[w] = 3
        /\ get_consecutive_failures(watcher_state, w) = 3

\* C7: a run dispatches an escalation iff it failed and it is the 5th, 10th,
\* ... failure in a row, which is the count it reads after recording the
\* failure; it dispatches one, and a successful run or the 1st-4th, 6th-9th
\* failure dispatches none.
C7_Escalation ==
    \A w \in Watchers : \A n \in DOMAIN runs[w] :
        LET r == runs[w][n]
        IN  /\ r.escalations <= 1
            /\ r.pc # "done" => r.escalations = 0
            /\ (r.pc = "done" /\ r.outcome = "failed")
                  => /\ r.failures = failedSince[w] + 1
                     /\ r.escalations =
                           IF r.failures >= 5 /\ r.failures % 5 = 0
                           THEN 1 ELSE 0
            /\ (r.pc = "done" /\ r.outcome # "failed") => r.escalations = 0

\* the tenth failure in a row has escalated
C7_Witness ==
    \E w \in Watchers : \E n \in DOMAIN runs[w] :
        /\ runs[w][n].pc = "done"
        /\ runs[w][n].failures = 10
        /\ runs[w][n].escalations = 1

\* C8: last_successful_at changes only in the write of
\* update_watcher_state(successful=True); it is then set, and not to an
\* earlier value than it had.  So a failed run leaves it as it was and it is
\* never cleared.
C8_LastSuccessfulAt ==
    [][\A w \in Watchers :
          last_successful_at(watcher_state', w) # last_successful_at(watcher_state, w)
             => /\ \E n \in DOMAIN runs[w] :
                      runs[w][n].pc = "uws_write" /\ runs[w][n].successful
                /\ last_successful_at(watcher_state', w) # None
                /\ last_successful_at(watcher_state, w) # None
                      => last_successful_at(watcher_state', w)[1] >=
                            last_successful_at(watcher_state, w)[1]]_vars

\* a failure was recorded after the last success and left it in place
C8_Witness ==
    \E w \in DOMAIN watcher_state :
        /\ watcher_state[w].last_successful_at # None
        /\ watcher_state[w].consecutive_failures > 0
        /\ watcher_state[w].last_check_at[1] > watcher_state[w].last_successful_at[1]

\* C9: is_first_run(name) is true exactly when no successful run of the
\* watcher has been recorded.
C9_FirstRun ==
    \A w \in Watchers :
        is_first_run(watcher_state, w) <=> ~ everSucceeded[w]

\* two runs have failed and none has succeeded: still the first run
C9_Witness ==
    \E w \in Watchers :
        /\ ~ everSucceeded[w]
        /\ w \in DOMAIN watcher_state
        /\ watcher_state[w].consecutive_failures = 2
        /\ is_first_run(watcher_state, w)

Processed(r) ==
    IF r.i > 0 THEN r.i - 1
    ELSE IF r.successful THEN Len(r.new_items) ELSE 0

\* C11: an item's notification is suppressed iff the first-run snapshot of
\* its cycle is true and first_run_notify is false: a run has dispatched
\* nothing if that holds and every item it has processed, in order, if not.
\* The snapshot is is_first_run as read once, before any item is processed,
\* and it stays as read for the whole batch.
C11_Suppression ==
    /\ [](\A w \in Watchers : \A n \in DOMAIN runs[w] :
            LET r == runs[w][n]
            IN  r.dispatched =
                   IF r.first_run /\ ~ first_run_notify
                   THEN <<>>
                   ELSE SubSeq(KeySeq(r.new_items), 1, Processed(r)))
    /\ [][\A w \in Watchers : \A n \in DOMAIN runs[w] :
             n \in DOMAIN runs'[w]
                => /\ runs[w][n].pc = "check"
                         => runs'[w][n].first_run = FALSE
                   /\ (runs[w][n].pc = "is_first_run" /\ runs'[w][n] # runs[w][n])
                         => /\ runs'[w][n].first_run = is_first_run(watcher_state, w)
                            /\ runs[w][n].dispatched = <<>>
                            /\ runs[w][n].i = 0
                   /\ runs[w][n].pc \notin {"check", "is_first_run"}
                         => runs'[w][n].first_run = runs[w][n].first_run]_vars

\* a first-run cycle with first_run_notify on has dispatched its two items
C11_Witness ==
    \E w \in Watchers : \E n \in DOMAIN runs[w] :
        /\ runs[w][n].pc = "done"
        /\ runs[w][n].first_run
        /\ first_run_notify
        /\ Len(runs[w][n].dispatched) = 2
        /\ Cardinality(KeysIn(runs[w][n].new_items)) = 2

\* C12: when triage.analyze fails on an item (it raises, or it gives up and
\* returns its fallback), the item is marked seen all the same and carries
\* the fallback result; the step that follows writes the fallback into the
\* item's row, dispatches the item unless it is suppressed and leaves the run
\* on its successful path; a run in which nothing else failed is recorded
\* as successful, with consecutive_failures 0.
C12_TriageFallback ==
    /\ [](\A w \in Watchers : \A n \in DOMAIN runs[w] :
            LET r == runs[w][n]
            IN  /\ r.analyze = "failed"
                   => /\ r.pc = "update_triage"
                      /\ r.result =
                            TriageResult("unclassified", "unknown",
                                         "AI triage unavailable")
                      /\ is_seen(seen_items, r.new_items[r.i].key)
                /\ (r.pc = "done" /\ r.e = "")
                   => /\ r.outcome = "success"
                      /\ get_consecutive_failures(watcher_state, w) = 0)
    /\ [][\A w \in Watchers : \A n \in DOMAIN runs[w] :
             LET r == runs[w][n]
             IN  (r.analyze = "failed" /\ runs'[w] # runs[w])
                    => /\ n \in DOMAIN runs'[w]
                       /\ \A m \in RowsOf(seen_items', r.new_items[r.i].key) :
                             /\ seen_items'[m].classification = Some("unclassified")
                             /\ seen_items'[m].severity = Some("unknown")
                             /\ seen_items'[m].summary = Some("AI triage unavailable")
                       /\ runs'[w][n].dispatched =
                             IF r.first_run /\ ~ first_run_notify
                             THEN r.dispatched
                             ELSE Append(r.dispatched, r.new_items[r.i].key)
                       /\ runs'[w][n].e = ""
                       /\ \/ runs'[w][n].pc = "process_item"
                          \/ runs'[w][n].pc = "uws_read" /\ runs'[w][n].successful]_vars

\* analyze failed on both items of a batch; both were dispatched and the run
\* was recorded as successful
C12_Witness ==
    \E w \in Watchers : \E n \in DOMAIN runs[w] :
        LET r == runs[w][n]
        IN  /\ r.pc = "done"
            /\ r.outcome = "success"
            /\ Len(r.dispatched) = 2
            /\ Cardinality(KeysIn(r.new_items)) = 2
            /\ \A key \in KeysIn(r.new_items) :
                  \A m \in RowsOf(seen_items, key) :
                     seen_items[m].classification = Some("unclassified")

(***************************************************************************)
(* Properties of dispatch and the channels (DispatchSpec).  r.sends is the *)
(* log of the send calls of the last _send_notification call of run r.     *)
(***************************************************************************)

\* C13: a _send_notification call calls send on every notifier of
\* self.notifiers once, in order, whatever the earlier ones returned or
\* raised, and no exception leaves it: the run that dispatched is not on a
\* failure path because of it.
C13_DispatchEveryChannel ==
    \A w \in Watchers : \A n \in DOMAIN runs[w] :
        LET r == runs[w][n]
        IN  /\ (r.dispatched # <<>> \/ r.escalations > 0)
               => /\ Len(r.sends) = Len(Notifiers)
                  /\ \A k \in DOMAIN Notifiers :
                        r.sends[k].notifier = Notifiers[k]
            /\ r.e # "dispatch"
            /\ r.outcome # "raised"

\* the first notifier raised and the second one delivered
C13_Witness ==
    \E w \in Watchers : \E n \in DOMAIN runs[w] :
        /\ Len(runs[w][n].sends) = 2
        /\ runs[w][n].sends[1].result = "raised"
        /\ runs[w][n].sends[2].result = "true"

\* C14: a run in which nothing failed but deliveries ends recorded as
\* successful, with consecutive_failures 0 and every item of its batch
\* seen, also when no send of the run delivered.
C14_DeliveryFailureNotFatal ==
    \A w \in Watchers : \A n \in DOMAIN runs[w] :
        LET r == runs[w][n]
        IN  (r.pc = "done" /\ r.e \in {"", "dispatch"})
               => /\ r.outcome = "success"
                  /\ get_consecutive_failures(watcher_state, w) = 0
                  /\ \A key \in KeysIn(r.new_items) : is_seen(seen_items, key)
                  /\ Len(r.dispatched) = Len(r.new_items)

\* both items of a batch were dispatched, every send failed (one of them by
\* raising) and the run was recorded as successful
C14_Witness ==
    \E w \in Watchers : \E n \in DOMAIN runs[w] :
        LET r == runs[w][n]
        IN  /\ r.pc = "done"
            /\ r.outcome = "success"
            /\ Len(r.dispatched) = 2
            /\ Cardinality(KeysIn(r.new_items)) = 2
            /\ r.delivered = 0
            /\ \E k \in DOMAIN r.sends : r.sends[k].result = "raised"
            /\ watcher_state[w].consecutive_failures = 0

\* C15 as claimed: no send call raises; each returns true or false.
C15_SendNeverRaises ==
    \A w \in Watchers : \A n \in DOMAIN runs[w] :
        \A k \in DOMAIN runs[w][n].sends :
            runs[w][n].sends[k].result \in {"true", "false"}

\* C16: a notifier with a required setting missing (sender address, sender
\* password, or its recipient: recipient_email for e-mail, sms_gateway for
\* SMS) returns false from send without opening an SMTP session.
C16_FailClosed ==
    \A w \in Watchers : \A n \in DOMAIN runs[w] :
        \A k \in DOMAIN runs[w][n].sends :
            LET x == runs[w][n].sends[k]
                missing ==
                    \/ config.smtp_email = ""
                    \/ config.smtp_password = ""
                    \/ x.notifier = "EmailNotifier" /\ config.recipient_email = ""
                    \/ x.notifier = "SmsNotifier" /\ config.sms_gateway = ""
            IN  missing => (x.result = "false" /\ ~ x.connected)

\* with no SMS gateway set, SMS was refused without a session while the
\* e-mail was delivered
C16_Witness ==
    \E w \in Watchers : \E n \in DOMAIN runs[w] :
        /\ config.sms_gateway = ""
        /\ Len(runs[w][n].sends) = 2
        /\ runs[w][n].sends[1].result = "true"
        /\ runs[w][n].sends[1].connected
        /\ runs[w][n].sends[2].result = "false"
        /\ ~ runs[w][n].sends[2].connected

(***************************************************************************)
(* PairSpec: the jobs of both watchers at once, their runs interleaved     *)
(* step by step as the threads of the executor are, with first_run_notify  *)
(* on.  A batch holds a key once and a watcher fails at most                 *)
(* MaxPairFailures times in a row, so no run reaches the escalation.       *)
(***************************************************************************)
PairInit ==
    /\ seen_items = <<>>
    /\ watcher_state = <<>>
    /\ now = 0
    /\ runs = [w \in Watchers |-> <<>>]
    /\ job = "GitHubWatcher"
    /\ first_run_notify = TRUE
    /\ failedSince = [w \in Watchers |-> 0]
    /\ everSucceeded = [w \in Watchers |-> FALSE]
    /\ marked = {}
    /\ last_op = [op |-> "none"]
    /\ config = FullConfig
    /\ smtp = HealthySmtp
    /\ rt = IdleRetry
    /\ scheduler = RunningScheduler
    /\ db = OpenDatabase

\* no key occurs twice in the batch
DistinctKeys(batch) ==
    \A a, b \in DOMAIN batch : batch[a].key = batch[b].key => a = b

PairNext ==
    \/ \E w \in Watchers : TickStart(w)
    \/ \E w \in Watchers : TickSkip(w)
    \/ \E w \in Watchers : \E n \in DOMAIN runs[w] :
          CheckReturns(w, n) /\ DistinctKeys(runs'[w][n].new_items)
    \/ \E w \in Watchers : \E n \in DOMAIN runs[w] :
          failedSince[w] < MaxPairFailures /\ CheckRaises(w, n)
    \/ \E w \in Watchers : \E n \in DOMAIN runs[w] : IsFirstRun(w, n)
    \/ \E w \in Watchers : \E n \in DOMAIN runs[w] : ProcessItemMark(w, n)
    \/ \E w \in Watchers : \E n \in DOMAIN runs[w] : ProcessItemNotify(w, n)
    \/ \E w \in Watchers : \E n \in DOMAIN runs[w] :
          failedSince[w] < MaxPairFailures /\ ProcessItemRenderRaises(w, n)
    \/ \E w \in Watchers : \E n \in DOMAIN runs[w] : UwsRead(w, n)
    \/ \E w \in Watchers : \E n \in DOMAIN runs[w] : UwsWrite(w, n)
    \/ \E w \in Watchers : \E n \in DOMAIN runs[w] : GetFailures(w, n)
    \/ \E w \in Watchers : \E n \in DOMAIN runs[w] : Finish(w, n)

PairSpec == PairInit /\ [][PairNext]_vars

(***************************************************************************)
(* ForgeSpec: the job of ForgeWatcher with check() spelled out for one     *)
(* mod: _check_mod_metadata, then _scrape_comments, each behind            *)
(* @retry(max_attempts=2, base_delay=10.0, RequestException) and each      *)
(* inside its own try/except Exception of check().  first_run_notify is    *)
(* on; the comment scrape finds no comment.                                *)
(***************************************************************************)
ForgeRetry == NewRetry("loop", 2, 10, 2)

ForgeInit ==
    /\ seen_items = <<>>
    /\ watcher_state = <<>>
    /\ now = 0
    /\ runs = [w \in Watchers |-> <<>>]
    /\ job = "ForgeWatcher"
    /\ first_run_notify = TRUE
    /\ failedSince = [w \in Watchers |-> 0]
    /\ everSucceeded = [w \in Watchers |-> FALSE]
    /\ marked = {}
    /\ last_op = [op |-> "none"]
    /\ config = FullConfig
    /\ smtp = HealthySmtp
    /\ rt = IdleRetry
    /\ scheduler = RunningScheduler
    /\ db = OpenDatabase

\* check() reaches the first wrapped call
ForgeCheckStart(w, n) ==
    /\ runs[w][n].pc = "check"
    /\ rt.pc = "idle"
    /\ rt' = ForgeRetry
    /\ runs' = [runs EXCEPT ![w][n] = [@ EXCEPT !.pc = "check_mod_metadata"]]
    /\ UNCHANGED <<seen_items, watcher_state, now, job, first_run_notify,
                   failedSince, everSucceeded, marked, last_op, config, smtp,
                   scheduler, db>>

\* where check() goes after the wrapped call the run is in
AfterFetch(r, items) ==
    IF r.pc = "check_mod_metadata"
    THEN [r EXCEPT !.pc = "scrape_comments", !.new_items = @ \o items]
    ELSE [r EXCEPT !.pc = "is_first_run", !.new_items = @ \o items]

\* the wrapped call returned its items: new_items.extend(items)
ForgeFetchReturns(w, n) ==
    LET r == runs[w][n]
    IN  /\ r.pc \in {"check_mod_metadata", "scrape_comments"}
        /\ rt.pc = "returned"
        /\ \E items \in SeqsUpTo(NewItemsOf(w), MaxBatch) :
              /\ r.pc = "scrape_comments" => items = <<>>
              /\ runs' = [runs EXCEPT ![w][n] = AfterFetch(r, items)]
        /\ rt' = IF r.pc = "check_mod_metadata" THEN ForgeRetry ELSE IdleRetry
        /\ UNCHANGED <<seen_items, watcher_state, now, job, first_run_notify,
                       failedSince, everSucceeded, marked, last_op, config,
                       smtp,
                   scheduler, db>>

\* the wrapped call raised, after its retries or at once: except Exception
\* in check() logs it and check() goes on
ForgeFetchRaises(w, n) ==
    LET r == runs[w][n]
    IN  /\ r.pc \in {"check_mod_metadata", "scrape_comments"}
        /\ rt.pc = "raised"
        /\ runs' = [runs EXCEPT ![w][n] = AfterFetch(r, <<>>)]
        /\ rt' = IF r.pc = "check_mod_metadata" THEN ForgeRetry ELSE IdleRetry
        /\ UNCHANGED <<seen_items, watcher_state, now, job, first_run_notify,
                       failedSince, everSucceeded, marked, last_op, config,
                       smtp,
                   scheduler, db>>

ForgeNext ==
    \/ TickStart(job)
    \/ TickSkip(job)
    \/ \E n \in DOMAIN runs[job] : ForgeCheckStart(job, n)
    \/ RetryAttemptReturns
    \/ RetryAttemptRetryable
    \/ RetryAttemptOther
    \/ RetryRaiseLast
    \/ \E n \in DOMAIN runs[job] : ForgeFetchReturns(job, n)
    \/ \E n \in DOMAIN runs[job] : ForgeFetchRaises(job, n)
    \/ \E n \in DOMAIN runs[job] : IsFirstRun(job, n)
    \/ \E n \in DOMAIN runs[job] : ProcessItemMark(job, n)
    \/ \E n \in DOMAIN runs[job] : ProcessItemNotify(job, n)
    \/ \E n \in DOMAIN runs[job] : ProcessItemRenderRaises(job, n)
    \/ \E n \in DOMAIN runs[job] : UwsRead(job, n)
    \/ \E n \in DOMAIN runs[job] : UwsWrite(job, n)
    \/ \E n \in DOMAIN runs[job] : GetFailures(job, n)
    \/ \E n \in DOMAIN runs[job] : Finish(job, n)

ForgeSpec == ForgeInit /\ [][ForgeNext]_vars

(***************************************************************************)
(* FaultSpec: the job of GitHubWatcher with a store whose operations can   *)
(* fail.  A Database method that fails raises sqlite3.Error and leaves the *)
(* tables as they were.  first_run_notify is on.                           *)
(***************************************************************************)
FaultInit ==
    /\ seen_items = <<>>
    /\ watcher_state = <<>>
    /\ now = 0
    /\ runs = [w \in Watchers |-> <<>>]
    /\ job = "GitHubWatcher"
    /\ first_run_notify = TRUE
    /\ failedSince = [w \in Watchers |-> 0]
    /\ everSucceeded = [w \in Watchers |-> FALSE]
    /\ marked = {}
    /\ last_op = [op |-> "none"]
    /\ config = FullConfig
    /\ smtp = HealthySmtp
    /\ rt = IdleRetry
    /\ scheduler = RunningScheduler
    /\ db = OpenDatabase

\* the run is inside the try block of _run_watcher
InTry(r) ==
    \/ r.pc \in {"check", "is_first_run", "process_item", "update_triage"}
    \/ r.pc \in {"uws_read", "uws_write"} /\ r.successful

\* the Database call the run is about to make raises: is_first_run,
\* mark_seen, update_triage, update_watcher_state (its SELECT or its write),
\* get_consecutive_failures, or get_watcher_state in _notify_watcher_failure.
\* Inside the try block the except branch of _run_watcher takes over;
\* inside the except branch nothing catches it and _run_watcher raises.
StoreRaises(w, n) ==
    LET r == runs[w][n]
        back == [r EXCEPT !.t = 0, !.existing = None]
    IN  /\ r.pc \in {"is_first_run", "process_item", "update_triage",
                     "uws_read", "uws_write", "get_failures", "notify_failure"}
        /\ failedSince[w] < MaxFailures
        /\ runs' = [runs EXCEPT ![w][n] =
              IF InTry(r) THEN Raise(back, "store")
              ELSE [back EXCEPT !.pc = "done", !.outcome = "raised"]]
        /\ UNCHANGED <<seen_items, watcher_state, now, job, first_run_notify,
                       failedSince, everSucceeded, marked, last_op, config,
                       smtp, rt,
                   scheduler, db>>

FaultNext ==
    \/ TickStart(job)
    \/ TickSkip(job)
    \/ \E n \in DOMAIN runs[job] : CheckReturns(job, n)
    \/ \E n \in DOMAIN runs[job] : CheckRaises(job, n)
    \/ \E n \in DOMAIN runs[job] : IsFirstRun(job, n)
    \/ \E n \in DOMAIN runs[job] : ProcessItemMark(job, n)
    \/ \E n \in DOMAIN runs[job] : ProcessItemNotify(job, n)
    \/ \E n \in DOMAIN runs[job] : ProcessItemRenderRaises(job, n)
    \/ \E n \in DOMAIN runs[job] : StoreRaises(job, n)
    \/ \E n \in DOMAIN runs[job] : UwsRead(job, n)
    \/ \E n \in DOMAIN runs[job] : UwsWrite(job, n)
    \/ \E n \in DOMAIN runs[job] : GetFailures(job, n)
    \/ \E n \in DOMAIN runs[job] : NotifyFailure(job, n)
    \/ \E n \in DOMAIN runs[job] : Finish(job, n)

FaultSpec == FaultInit /\ [][FaultNext]_vars

(***************************************************************************)
(* CountSpec: the jobs of both watchers, their runs interleaved statement  *)
(* by statement, failing up to MaxFailures times in a row each.  The       *)
(* sources hold nothing new: check() returns an empty batch or raises.     *)
(***************************************************************************)
CountNext ==
    \/ \E w \in Watchers : TickStart(w)
    \/ \E w \in Watchers : TickSkip(w)
    \/ \E w \in Watchers : \E n \in DOMAIN runs[w] :
          CheckReturns(w, n) /\ runs'[w][n].new_items = <<>>
    \/ \E w \in Watchers : \E n \in DOMAIN runs[w] : CheckRaises(w, n)
    \/ \E w \in Watchers : \E n \in DOMAIN runs[w] : IsFirstRun(w, n)
    \/ \E w \in Watchers : \E n \in DOMAIN runs[w] : UwsRead(w, n)
    \/ \E w \in Watchers : \E n \in DOMAIN runs[w] : UwsWrite(w, n)
    \/ \E w \in Watchers : \E n \in DOMAIN runs[w] : GetFailures(w, n)
    \/ \E w \in Watchers : \E n \in DOMAIN runs[w] : NotifyFailure(w, n)
    \/ \E w \in Watchers : \E n \in DOMAIN runs[w] : Finish(w, n)

CountSpec == PairInit /\ [][CountNext]_vars

(***************************************************************************)
(* TwinSpec: two processes, each with its own WingmanScheduler, opened on  *)
(* the same database file.  Each scheduler admits one run of a job at a    *)
(* time, so up to two runs of the job are executing, statement by          *)
(* statement, against the one store.  first_run_notify is on, a batch      *)
(* holds a key once and check() returns: a run fails on rendering or on    *)
(* the INSERT of a watcher_state row the other process has just inserted.  *)
(***************************************************************************)
Instances == 2

\* the trigger fires in a process that has no run of w executing
TwinTickStart(w) ==
    /\ Len(runs[w]) < Instances * max_instances
    /\ runs' = [runs EXCEPT ![w] = Append(@, NewRun)]
    /\ UNCHANGED <<seen_items, watcher_state, now, job, first_run_notify,
                   failedSince, everSucceeded, marked, last_op,
                   config, smtp, rt,
                   scheduler, db>>

\* the trigger fires in a process whose run of w is executing
TwinTickSkip(w) ==
    /\ Len(runs[w]) >= max_instances
    /\ UNCHANGED vars

TwinNext ==
    \/ TwinTickStart(job)
    \/ TwinTickSkip(job)
    \/ \E n \in DOMAIN runs[job] :
          CheckReturns(job, n) /\ DistinctKeys(runs'[job][n].new_items)
    \/ \E n \in DOMAIN runs[job] : IsFirstRun(job, n)
    \/ \E n \in DOMAIN runs[job] : ProcessItemMark(job, n)
    \/ \E n \in DOMAIN runs[job] : ProcessItemNotify(job, n)
    \/ \E n \in DOMAIN runs[job] : ProcessItemRenderRaises(job, n)
    \/ \E n \in DOMAIN runs[job] : UwsRead(job, n)
    \/ \E n \in DOMAIN runs[job] : UwsWrite(job, n)
    \/ \E n \in DOMAIN runs[job] : GetFailures(job, n)
    \/ \E n \in DOMAIN runs[job] : Finish(job, n)

TwinSpec == PairInit /\ [][TwinNext]_vars

(***************************************************************************)
(* LiveSpec: the jobs of both watchers with failing Database calls, under  *)
(* the scheduling the program relies on: the trigger of a job keeps        *)
(* firing, and a worker thread that executes a run keeps executing it      *)
(* (every call it makes returns or raises).  first_run_notify is on, a     *)
(* batch holds a key once and a watcher fails at most MaxPairFailures      *)
(* times in a row: past that, check() returns, the Database calls return   *)
(* and the classifier answers with strings.                                *)
(***************************************************************************)
\* the source of a watcher holds one item at most: an issue, a mod version
LiveBatch(batch) ==
    /\ Len(batch) <= 1
    /\ \A m \in DOMAIN batch : batch[m].key.item_type # "comment"

\* past the bound the classifier answers with strings
LiveAnswer(w, n) ==
    \/ failedSince[w] < MaxPairFailures
    \/ ~ format_notification_raises(runs'[w][n].result)

LiveNext ==
    \/ \E w \in Watchers : TickStart(w)
    \/ \E w \in Watchers : TickSkip(w)
    \/ \E w \in Watchers : \E n \in DOMAIN runs[w] :
          CheckReturns(w, n) /\ LiveBatch(runs'[w][n].new_items)
    \/ \E w \in Watchers : \E n \in DOMAIN runs[w] :
          failedSince[w] < MaxPairFailures /\ CheckRaises(w, n)
    \/ \E w \in Watchers : \E n \in DOMAIN runs[w] : IsFirstRun(w, n)
    \/ \E w \in Watchers : \E n \in DOMAIN runs[w] :
          ProcessItemMark(w, n) /\ LiveAnswer(w, n)
    \/ \E w \in Watchers : \E n \in DOMAIN runs[w] : ProcessItemNotify(w, n)
    \/ \E w \in Watchers : \E n \in DOMAIN runs[w] :
          ProcessItemRenderRaises(w, n)
    \/ \E w \in Watchers : \E n \in DOMAIN runs[w] :
          failedSince[w] < MaxPairFailures /\ StoreRaises(w, n)
    \/ \E w \in Watchers : \E n \in DOMAIN runs[w] : UwsRead(w, n)
    \/ \E w \in Watchers : \E n \in DOMAIN runs[w] : UwsWrite(w, n)
    \/ \E w \in Watchers : \E n \in DOMAIN runs[w] : GetFailures(w, n)
    \/ \E w \in Watchers : \E n \in DOMAIN runs[w] : Finish(w, n)

\* the next statement of the run of w: any step but the start of a run
RunStep(w) ==
    /\ LiveNext
    /\ runs'[w] # runs[w]
    /\ Len(runs'[w]) <= Len(runs[w])

\* the trigger of every job keeps firing and the thread of every run keeps
\* executing
LiveSpec ==
    /\ PairInit
    /\ [][LiveNext]_vars
    /\ \A w \in Watchers : WF_vars(TickStart(w)) /\ WF_vars(RunStep(w))

(***************************************************************************)
(* LifecycleSpec: the job of one watcher from start() to shutdown.  The    *)
(* scheduler wakes up for the job with one or more run times due, each     *)
(* some seconds late; the signal handler calls scheduler.shutdown          *)
(* (wait=False) and then db.close() while the threads of the executor go   *)
(* on.  first_run_notify is on, a batch holds a key once.                  *)
(***************************************************************************)
misfire_grace_time == 300

\* seconds between a run time and the moment the executor looks at it
Lateness == {0, misfire_grace_time, misfire_grace_time + 1}

\* the run times due at a wake-up, oldest (latest) first
DueRunTimes ==
    {<<d>> : d \in Lateness}
      \cup {p \in Lateness \X Lateness : p[2] < p[1]}

\* coalesce=True: run_times[-1:]
coalesce(run_times) == <<run_times[Len(run_times)]>>

\* variant: a run time exactly misfire_grace_time late counts as missed
misfired_at_grace(difference) == difference >= misfire_grace_time

\* if difference > grace_time: the run time is reported missed and skipped
misfired(difference) == difference > misfire_grace_time

\* variant: the trigger of the job still fires after shutdown
accepts_ticks_always(state) == TRUE

\* the main loop of the scheduler handles due jobs while it is running
accepts_ticks(state) == state = "running"

LifecycleInit ==
    /\ seen_items = <<>>
    /\ watcher_state = <<>>
    /\ now = 0
    /\ runs = [w \in Watchers |-> <<>>]
    /\ job \in Watchers
    /\ first_run_notify = TRUE
    /\ failedSince = [w \in Watchers |-> 0]
    /\ everSucceeded = [w \in Watchers |-> FALSE]
    /\ marked = {}
    /\ last_op = [op |-> "none"]
    /\ config = FullConfig
    /\ smtp = HealthySmtp
    /\ rt = IdleRetry
    /\ scheduler = RunningScheduler
    /\ db = OpenDatabase

\* the scheduler wakes up for the job of w: the due run times are coalesced
\* and submitted; the executor refuses them when max_instances runs of the
\* job are executing, and its worker drops a run time that is more than
\* misfire_grace_time late instead of calling _run_watcher
ProcessJobs(w) ==
    /\ accepts_ticks(scheduler.state)
    /\ \E due \in DueRunTimes :
          LET run_times == coalesce(due)
              outcome == IF ~ can_start(Len(runs[w])) THEN "max_instances"
                         ELSE IF misfired(run_times[1]) THEN "missed"
                         ELSE "run"
          IN  /\ scheduler' = [scheduler EXCEPT
                                  !.tick = [run_times |-> due,
                                            outcome |-> outcome]]
              /\ runs' = IF outcome = "run"
                         THEN [runs EXCEPT ![w] = Append(@, NewRun)]
                         ELSE runs
    /\ UNCHANGED <<seen_items, watcher_state, now, job, first_run_notify,
                   failedSince, everSucceeded, marked, last_op, config, smtp,
                   rt, db>>

\* a run time of the job passes after shutdown: the main loop has ended,
\* nothing handles it
TickAfterShutdown(w) ==
    /\ ~ accepts_ticks(scheduler.state)
    /\ UNCHANGED vars

\* the signal handler: self.scheduler.shutdown(wait=False)
SchedulerShutdown ==
    /\ scheduler.state = "running"
    /\ scheduler' = [scheduler EXCEPT !.state = "stopped"]
    /\ UNCHANGED <<seen_items, watcher_state, now, runs, job,
                   first_run_notify, failedSince, everSucceeded, marked,
                   last_op, config, smtp, rt, db>>

\* the signal handler, next statement: self.db.close()
DatabaseClose ==
    /\ scheduler.state = "stopped"
    /\ ~ db.closed
    /\ db' = [db EXCEPT !.conn = FALSE, !.closed = TRUE]
    /\ UNCHANGED <<seen_items, watcher_state, now, runs, job,
                   first_run_notify, failedSince, everSucceeded, marked,
                   last_op, config, smtp, rt, scheduler>>

\* the run is about to call a Database method
AtStoreCall(r) ==
    r.pc \in {"check", "is_first_run", "process_item", "update_triage",
              "uws_read", "uws_write", "get_failures"}

\* the conn property of Database, reached by a run with _conn None:
\* self._connect() opens the file again
ConnReconnects(w, n) ==
    /\ AtStoreCall(runs[w][n])
    /\ ~ db.conn
    /\ db' = [db EXCEPT !.conn = TRUE, !.connects = @ + 1]
    /\ UNCHANGED <<seen_items, watcher_state, now, runs, job,
                   first_run_notify, failedSince, everSucceeded, marked,
                   last_op, config, smtp, rt, scheduler>>

LifecycleNext ==
    \/ ProcessJobs(job)
    \/ TickAfterShutdown(job)
    \/ SchedulerShutdown
    \/ DatabaseClose
    \/ \E n \in DOMAIN runs[job] : ConnReconnects(job, n)
    \/ \E n \in DOMAIN runs[job] :
          /\ db.conn
          /\ CheckReturns(job, n)
          /\ DistinctKeys(runs'[job][n].new_items)
    \/ \E n \in DOMAIN runs[job] :
          failedSince[job] < MaxPairFailures /\ CheckRaises(job, n)
    \/ \E n \in DOMAIN runs[job] : db.conn /\ IsFirstRun(job, n)
    \/ \E n \in DOMAIN runs[job] : db.conn /\ ProcessItemMark(job, n)
    \/ \E n \in DOMAIN runs[job] : db.conn /\ ProcessItemNotify(job, n)
    \/ \E n \in DOMAIN runs[job] :
          /\ db.conn
          /\ failedSince[job] < MaxPairFailures
          /\ ProcessItemRenderRaises(job, n)
    \/ \E n \in DOMAIN runs[job] : db.conn /\ UwsRead(job, n)
    \/ \E n \in DOMAIN runs[job] : db.conn /\ UwsWrite(job, n)
    \/ \E n \in DOMAIN runs[job] : db.conn /\ GetFailures(job, n)
    \/ \E n \in DOMAIN runs[job] : Finish(job, n)

LifecycleSpec == LifecycleInit /\ [][LifecycleNext]_vars

(***************************************************************************)
(* TokenSpec: ForgeWatcher saving and reading its token on the connection  *)
(* all threads share (check_same_thread=False).  The statements of         *)
(* save_forge_token are separate steps; between them the thread of another *)
(* watcher can reach the self.conn.commit() of its own Database method,    *)
(* which commits whatever the connection has pending.                      *)
(***************************************************************************)
TokenInit ==
    /\ seen_items = <<>>
    /\ watcher_state = <<>>
    /\ now = 0
    /\ runs = [w \in Watchers |-> <<>>]
    /\ job = "ForgeWatcher"
    /\ first_run_notify = TRUE
    /\ failedSince = [w \in Watchers |-> 0]
    /\ everSucceeded = [w \in Watchers |-> FALSE]
    /\ marked = {}
    /\ last_op = [op |-> "none"]
    /\ config = FullConfig
    /\ smtp = HealthySmtp
    /\ rt = IdleRetry
    /\ scheduler = RunningScheduler
    /\ db = OpenDatabase

\* save_forge_token: self.conn.execute("DELETE FROM forge_tokens")
SaveForgeTokenDelete ==
    /\ db.saving.pc = "idle"
    /\ db.saved < MaxSaves
    /\ \E token \in Tokens :
          db' = [db EXCEPT !.forge_tokens = <<>>,
                           !.saving = [pc |-> "insert", token |-> token],
                           !.got = None]
    /\ UNCHANGED <<seen_items, watcher_state, now, runs, job,
                   first_run_notify, failedSince, everSucceeded, marked,
                   last_op, config, smtp, rt, scheduler>>

\* save_forge_token: self.conn.execute("INSERT INTO forge_tokens ...")
SaveForgeTokenInsert ==
    /\ db.saving.pc = "insert"
    /\ db' = [db EXCEPT
                !.forge_tokens = Append(@, [id |-> next_id(db.forge_tokens),
                                            token |-> db.saving.token]),
                !.saving = [@ EXCEPT !.pc = "commit"]]
    /\ UNCHANGED <<seen_items, watcher_state, now, runs, job,
                   first_run_notify, failedSince, everSucceeded, marked,
                   last_op, config, smtp, rt, scheduler>>

\* save_forge_token: self.conn.commit()
SaveForgeTokenCommit ==
    /\ db.saving.pc = "commit"
    /\ db' = [db EXCEPT !.committed = db.forge_tokens,
                        !.saving = [@ EXCEPT !.pc = "idle"],
                        !.saved = @ + 1,
                        !.last = db.saving.token]
    /\ UNCHANGED <<seen_items, watcher_state, now, runs, job,
                   first_run_notify, failedSince, everSucceeded, marked,
                   last_op, config, smtp, rt, scheduler>>

\* mark_seen, update_triage or update_watcher_state of another watcher's
\* thread reaches self.conn.commit() on the shared connection
OtherThreadCommits ==
    /\ db' = [db EXCEPT !.committed = db.forge_tokens]
    /\ UNCHANGED <<seen_items, watcher_state, now, runs, job,
                   first_run_notify, failedSince, everSucceeded, marked,
                   last_op, config, smtp, rt, scheduler>>

\* _ensure_authenticated: cached = self.db.get_forge_token()
GetForgeToken ==
    /\ db.saving.pc = "idle"
    /\ db' = [db EXCEPT !.got = Some(get_forge_token(db.forge_tokens))]
    /\ UNCHANGED <<seen_items, watcher_state, now, runs, job,
                   first_run_notify, failedSince, everSucceeded, marked,
                   last_op, config, smtp, rt, scheduler>>

\* the process ends and is started again: Database.__init__ connects to
\* the file, which holds what was committed; no call of the new process
\* has returned yet
ProcessRestarts ==
    /\ db' = [db EXCEPT !.forge_tokens = db.committed,
                        !.saving = [pc |-> "idle", token |-> ""],
                        !.saved = 0, !.last = "",
                        !.got = None]
    /\ UNCHANGED <<seen_items, watcher_state, now, runs, job,
                   first_run_notify, failedSince, everSucceeded, marked,
                   last_op, config, smtp, rt, scheduler>>

TokenNext ==
    \/ ProcessRestarts
    \/ SaveForgeTokenDelete
    \/ SaveForgeTokenInsert
    \/ SaveForgeTokenCommit
    \/ OtherThreadCommits
    \/ GetForgeToken

TokenSpec == TokenInit /\ [][TokenNext]_vars

(***************************************************************************)
(* Properties of retry (RetrySpec).                                        *)
(***************************************************************************)

\* C17: when every attempt of a wrapped call (max_attempts >= 1) has failed
\* with a retryable exception and the wrapper has raised, the function was
\* called max_attempts times, the wrapper slept max_attempts - 1 times, once
\* after each attempt but the last, for base_delay * backoff_factor^i after
\* 0-based attempt i, and what it raised is the exception of the last
\* attempt.
C17_RetryExhausted ==
    (/\ rt.pc = "raised"
     /\ rt.max_attempts >= 1
     /\ \A k \in DOMAIN rt.events :
           rt.events[k].ev = "call" => rt.events[k].outcome = "retryable")
    => /\ Calls(rt.events) = rt.max_attempts
       /\ Len(Sleeps(rt.events)) = rt.max_attempts - 1
       /\ Len(rt.events) = 2 * rt.max_attempts - 1
       /\ \A k \in DOMAIN rt.events :
             IF k % 2 = 1
             THEN rt.events[k].ev = "call"
             ELSE /\ rt.events[k].ev = "sleep"
                  /\ rt.events[k].delay =
                        rt.base_delay * Pow(rt.backoff_factor, (k \div 2) - 1)
       /\ rt.raised = Some(Exc("retryable", rt.max_attempts))

\* three attempts failed: slept 5 then 10, raised the third failure
C17_Witness ==
    /\ rt.pc = "raised"
    /\ rt.max_attempts = 3
    /\ Calls(rt.events) = 3
    /\ Len(rt.events) = 5
    /\ rt.events[2].delay = 5
    /\ rt.events[4].delay = 10
    /\ rt.raised = Some(Exc("retryable", 3))

\* C18: when a wrapped call has returned after k retryable failures, then
\* k < max_attempts, the function was called k + 1 times, the wrapper slept
\* k times, once after each failure, what it returned is what the last call
\* returned, and it does nothing more.
C18_RetryThenSuccess ==
    /\ [](rt.pc = "returned"
            => LET k == Cardinality({j \in DOMAIN rt.events :
                                        rt.events[j].outcome = "retryable"})
               IN  /\ k < rt.max_attempts
                   /\ Calls(rt.events) = k + 1
                   /\ Len(Sleeps(rt.events)) = k
                   /\ Len(rt.events) = 2 * k + 1
                   /\ \A j \in 1..(2 * k) :
                         IF j % 2 = 1
                         THEN rt.events[j] = CallEvent("retryable")
                         ELSE rt.events[j].ev = "sleep"
                   /\ rt.events[2 * k + 1] = CallEvent("returns")
                   /\ rt.returned = Some(k + 1)
                   /\ rt.raised = None)
    /\ [][rt.pc = "returned" => rt' = rt]_vars

\* two failures, two sleeps, then the third call returned
C18_Witness ==
    /\ rt.pc = "returned"
    /\ rt.max_attempts = 3
    /\ Calls(rt.events) = 3
    /\ Len(Sleeps(rt.events)) = 2
    /\ rt.returned = Some(3)

\* C19: an exception outside `exceptions` raised by any attempt leaves the
\* wrapper at once: the call that raised it is the last thing the wrapper
\* did (no sleep, no further call) and the wrapper raised that exception.
C19_NonRetryablePropagates ==
    /\ [](\A k \in DOMAIN rt.events :
             rt.events[k].outcome = "other"
                => /\ k = Len(rt.events)
                   /\ rt.pc = "raised"
                   /\ rt.raised = Some(Exc("other", Calls(rt.events))))
    /\ [][rt.pc = "raised" => rt' = rt]_vars

\* the second attempt, after one retryable failure and one sleep, raised an
\* exception that is not retryable
C19_Witness ==
    /\ rt.pc = "raised"
    /\ rt.max_attempts = 3
    /\ Len(rt.events) = 3
    /\ rt.events[1].outcome = "retryable"
    /\ rt.events[2].ev = "sleep"
    /\ rt.events[3].outcome = "other"

(***************************************************************************)
(* Properties of two watchers side by side (PairSpec).                     *)
(***************************************************************************)

\* C20: a step of a run of one watcher, on its successful path or on its
\* failure path, leaves the watcher_state row of every other watcher as it
\* was (no row appears, no column changes) and leaves the other watcher's
\* runs where they were; and whatever the runs of the other watchers are
\* doing, a watcher that has no run executing can start one at its tick and
\* a run that has not returned can take its next step.
C20_WatcherIsolation ==
    /\ [](\A b \in Watchers :
             /\ runs[b] = <<>> => ENABLED TickStart(b)
             /\ \A n \in DOMAIN runs[b] :
                   ENABLED (\/ CheckReturns(b, n)
                            \/ IsFirstRun(b, n)
                            \/ ProcessItemMark(b, n)
                            \/ ProcessItemNotify(b, n)
                            \/ ProcessItemRenderRaises(b, n)
                            \/ UwsRead(b, n)
                            \/ UwsWrite(b, n)
                            \/ GetFailures(b, n)
                            \/ Finish(b, n)))
    /\ [][\A a \in Watchers :
             runs'[a] # runs[a]
                => \A b \in Watchers \ {a} :
                      /\ get_watcher_state(watcher_state', b)
                            = get_watcher_state(watcher_state, b)
                      /\ runs'[b] = runs[b]]_vars

\* GitHubWatcher has just recorded a failed run next to the row ForgeWatcher
\* wrote on success, which is as ForgeWatcher left it, while a later run of
\* ForgeWatcher is processing an item
C20_Witness ==
    /\ runs["GitHubWatcher"] # <<>>
    /\ runs["GitHubWatcher"][1].pc = "get_failures"
    /\ get_watcher_state(watcher_state, "GitHubWatcher") # None
    /\ watcher_state["GitHubWatcher"].consecutive_failures = 1
    /\ get_watcher_state(watcher_state, "ForgeWatcher") # None
    /\ watcher_state["ForgeWatcher"].consecutive_failures = 0
    /\ watcher_state["ForgeWatcher"].last_successful_at = Some(0)
    /\ runs["ForgeWatcher"] # <<>>
    /\ runs["ForgeWatcher"][1].pc = "process_item"

(***************************************************************************)
(* Properties of the failure paths of a cycle.                             *)
(***************************************************************************)

\* C23: when rendering or dispatch has failed for one item of a batch, the
\* run still takes every item of the batch through _process_item: when it
\* returns, every key of the batch is stored.
C23_ItemIsolation ==
    \A w \in Watchers : \A n \in DOMAIN runs[w] :
        LET r == runs[w][n]
        IN  (r.pc = "done" /\ r.e \in {"render", "dispatch"})
                => \A k \in KeysIn(r.new_items) : is_seen(seen_items, k)

\* C28: the source offers every item of the watcher at every cycle; the
\* batch check() returns holds no item whose key is stored, so an item that
\* enters _process_item (classification, then dispatch) has a key that was
\* not stored when the cycle began: if it is stored by then, an earlier item
\* of the same batch stored it.
C28_SeenItemsFiltered ==
    /\ [](\A w \in Watchers : \A n \in DOMAIN runs[w] :
             LET r == runs[w][n]
             IN  (r.pc = "process_item"
                    /\ is_seen(seen_items, r.new_items[r.i].key))
                    => \E j \in 1..(r.i - 1) :
                          r.new_items[j].key = r.new_items[r.i].key)
    /\ [][\A w \in Watchers : \A n \in DOMAIN runs[w] :
             (/\ runs[w][n].pc = "check"
              /\ n \in DOMAIN runs'[w]
              /\ runs'[w][n].pc = "is_first_run")
                => \A m \in DOMAIN runs'[w][n].new_items :
                      ~ is_seen(seen_items, runs'[w][n].new_items[m].key)]_vars

\* an issue stored by an earlier, successful cycle is still at the source;
\* the cycle under way returned the comment only and is about to classify it
C28_Witness ==
    /\ everSucceeded["GitHubWatcher"]
    /\ is_seen(seen_items, IdKey("github", "repo#issue1", "issue"))
    /\ runs["GitHubWatcher"] # <<>>
    /\ runs["GitHubWatcher"][1].pc = "process_item"
    /\ KeysIn(runs["GitHubWatcher"][1].new_items)
          = {IdKey("github", "repo#comment1", "comment")}

\* C24: when a wrapped fetch of ForgeWatcher has used up its attempts on a
\* retryable failure, check() raises: the next thing the run does is enter
\* the except branch of _run_watcher, which records the failure.
C24_ExhaustedFetchFailsRun ==
    [][\A n \in DOMAIN runs["ForgeWatcher"] :
          (/\ runs["ForgeWatcher"][n].pc
                 \in {"check_mod_metadata", "scrape_comments"}
           /\ rt.pc = "raised"
           /\ rt.raised = Some(Exc("retryable", rt.max_attempts))
           /\ runs'["ForgeWatcher"] # runs["ForgeWatcher"])
             => /\ n \in DOMAIN runs'["ForgeWatcher"]
                /\ runs'["ForgeWatcher"][n].pc = "uws_read"
                /\ runs'["ForgeWatcher"][n].outcome = "failed"]_vars

\* C21: whatever fails during a run, a Store operation of the except branch
\* included, _run_watcher returns without raising, and a run that failed
\* has its failure in watcher_state: the count it leaves is at least 1.
C21_FailuresSwallowed ==
    \A w \in Watchers : \A n \in DOMAIN runs[w] :
        LET r == runs[w][n]
        IN  r.pc = "done"
              => /\ r.outcome \in {"success", "failed"}
                 /\ r.outcome = "failed"
                      => get_consecutive_failures(watcher_state, w) >= 1

\* C22: a run whose try block was ended by a failing Store operation has,
\* when it returns, stored no item of the batch beyond those it dispatched
\* and the one it was processing,
\* recorded one more consecutive failure than the failed runs before it
\* since the last success, and left last_successful_at as it was.
C22_StoreFailureFatal ==
    \A w \in Watchers : \A n \in DOMAIN runs[w] :
        LET r == runs[w][n]
        IN  (r.pc = "done" /\ r.e = "store")
              => /\ r.outcome = "failed"
                 /\ get_consecutive_failures(watcher_state, w)
                       = failedSince[w] + 1
                 /\ (last_successful_at(watcher_state, w) # None)
                       <=> everSucceeded[w]
                 /\ \A m \in DOMAIN r.new_items :
                       is_seen(seen_items, r.new_items[m].key)
                          => \/ \E k \in DOMAIN r.dispatched :
                                   r.dispatched[k] = r.new_items[m].key
                             \/ /\ r.i >= 1
                                /\ r.new_items[r.i].key = r.new_items[m].key

(***************************************************************************)
(* Properties of start() and shutdown (LifecycleSpec).                     *)
(***************************************************************************)

\* C25: once scheduler.shutdown has been called the scheduler stays stopped
\* and no step starts a run: for every watcher, the runs executing after a
\* step are among those executing before it.
C25_NoRunAfterShutdown ==
    [][scheduler.state = "stopped"
          => /\ scheduler'.state = "stopped"
             /\ \A w \in Watchers : Len(runs'[w]) <= Len(runs[w])]_vars

\* shutdown has been handled, the last run has returned after at least one
\* successful cycle, and a run time of the job passes with nothing started
C25_Witness ==
    /\ scheduler.state = "stopped"
    /\ db.closed
    /\ runs[job] = <<>>
    /\ everSucceeded[job]
    /\ ENABLED TickAfterShutdown(job)

\* C26: shutdown closes the connection only when no run is executing, and
\* a connection closed by shutdown stays closed: _connect has run once,
\* in __init__.
C26_CloseAfterRuns ==
    db.closed
       => /\ \A w \in Watchers : runs[w] = <<>>
          /\ ~ db.conn
          /\ db.connects = 1

\* C30: at a wake-up of the scheduler for a job with no run executing, a
\* run is started when a due run time is at most misfire_grace_time (300 s)
\* late, one run for all the due run times, and no run is started when
\* every due run time is more than misfire_grace_time late: those are
\* reported missed.
C30_MisfireGrace ==
    [][\A w \in Watchers :
          LET t == scheduler'.tick
              started == Len(runs'[w]) = Len(runs[w]) + 1
          IN  (w = job /\ (started \/ t # scheduler.tick))
                => /\ ((\E k \in DOMAIN t.run_times :
                           t.run_times[k] <= 300)
                        /\ runs[w] = <<>>)
                       => (started /\ t.outcome = "run"
                                   /\ runs'[w] = <<NewRun>>)
                   /\ (\A k \in DOMAIN t.run_times : t.run_times[k] > 300)
                       => (~ started /\ runs' = runs
                             /\ (runs[w] = <<>> => t.outcome = "missed"))
                   /\ started => t.outcome = "run"]_vars

\* the scheduler woke up with two run times due, 301 s and exactly 300 s
\* late: one run was started
C30_Witness ==
    /\ scheduler.tick = [run_times |-> <<301, 300>>, outcome |-> "run"]
    /\ runs[job] # <<>>
    /\ runs[job][1].pc = "check"

(***************************************************************************)
(* Properties of the token cache (TokenSpec).                              *)
(***************************************************************************)

\* C27: forge_tokens never holds more than one row; once a token has been
\* saved, neither the table as statements on the connection see it nor the
\* table as committed is without a token; and get_forge_token after
\* save_forge_token(t) returns t.
C27_TokenReplaceAtomic ==
    /\ Len(db.forge_tokens) <= 1
    /\ Len(db.committed) <= 1
    /\ db.saved >= 1 => (db.forge_tokens # <<>> /\ db.committed # <<>>)
    /\ (db.saved >= 1 /\ db.saving.pc = "idle" /\ db.got # None)
          => db.got = Some(db.last)

\* C29: update_watcher_state merges the metadata patch key-wise into the
\* stored metadata: afterwards the stored metadata has the stored keys and
\* the patch's keys, a key of the patch has the patch's value, a key absent
\* from the patch keeps its stored value, and a call without a patch leaves
\* the stored metadata unchanged (a watcher without a row starts from {}).
C29_MetadataMerge ==
    last_op.op = "update_watcher_state" =>
        LET old == IF last_op.existing = None THEN EmptyDict
                   ELSE last_op.existing[1].metadata
            patch == last_op.metadata
            new == get_watcher_state(watcher_state, job)[1].metadata
        IN  /\ DOMAIN new = (DOMAIN old) \cup (DOMAIN patch)
            /\ \A k \in DOMAIN patch : new[k] = patch[k]
            /\ \A k \in (DOMAIN old) \ (DOMAIN patch) : new[k] = old[k]
            /\ DOMAIN patch = {} => new = old

\* C29 case: a patch on one key overrode it and the other stored key kept
\* its value
C29_Witness ==
    /\ last_op.op = "update_watcher_state"
    /\ last_op.existing # None
    /\ last_op.existing[1].metadata = [k \in MetaKeys |-> "v1"]
    /\ last_op.metadata = [k \in {"cursor"} |-> "v2"]
    /\ get_watcher_state(watcher_state, job)[1].metadata =
           [k \in MetaKeys |-> IF k = "cursor" THEN "v2" ELSE "v1"]

(***************************************************************************)
(* Properties of the record of an item over cycles and batches.            *)
(***************************************************************************)

\* C31: the triage fields of a record are written at most once after the
\* record is created: a step of a run that executes update_triage for an
\* item finds the record of its key never written by update_triage
\* (notified_at, which every update_triage sets, is still NULL).
C31_TriageWrittenOnce ==
    [][\A w \in Watchers : \A n \in DOMAIN runs[w] :
          (/\ runs[w][n].pc = "update_triage"
           /\ runs'[w] # runs[w])
             => \A m \in RowsOf(seen_items,
                                runs[w][n].new_items[runs[w][n].i].key) :
                   seen_items[m].notified_at = None]_vars

\* the record of key has been written by update_triage
TriageWritten(key) ==
    \E m \in RowsOf(seen_items, key) : seen_items[m].notified_at # None

\* C32: the items of a batch are processed one at a time in the order
\* check() returned them, each through analyze, mark_seen, update_triage,
\* the suppression test, rendering and dispatch in this order: while item i
\* is in _process_item the items before it are stored with their triage
\* written, no later item has been touched, and the notifications dispatched
\* so far are those of items before i, in batch order; mark_seen comes after
\* the analysis and before update_triage; update_triage comes before the
\* suppression test and before rendering; and a step that dispatches the
\* notification of an item finds the record of its key already stored.
C32_PipelineOrder ==
    /\ [](\A w \in Watchers : \A n \in DOMAIN runs[w] :
             LET r == runs[w][n]
                 keys == KeySeq(r.new_items)
             IN  r.pc \in {"process_item", "update_triage"}
                   => /\ r.i \in DOMAIN r.new_items
                      /\ \A j \in 1..(r.i - 1) :
                            is_seen(seen_items, keys[j]) /\ TriageWritten(keys[j])
                      /\ \A j \in (r.i + 1)..Len(keys) :
                            is_seen(seen_items, keys[j])
                               => \E m \in 1..r.i : keys[m] = keys[j]
                      /\ Len(r.dispatched) <= r.i - 1
                      /\ r.dispatched = SubSeq(keys, 1, Len(r.dispatched))
                      /\ r.pc = "process_item" => r.analyze = "none"
                      /\ r.pc = "update_triage"
                            => /\ r.analyze \in {"answer", "failed"}
                               /\ is_seen(seen_items, keys[r.i]))
    /\ [][\A w \in Watchers : \A n \in DOMAIN runs[w] :
             (/\ n \in DOMAIN runs'[w]
              /\ runs'[w][n].dispatched # runs[w][n].dispatched)
                => LET r == runs[w][n]
                       key == r.new_items[r.i].key
                   IN  /\ r.pc = "update_triage"
                       /\ runs'[w][n].dispatched = Append(r.dispatched, key)
                       /\ is_seen(seen_items, key)
                       /\ seen_items' = update_triage(seen_items, key, r.result, now)
                       /\ ~ suppressed(r.first_run, first_run_notify)
                       /\ ~ format_notification_raises(r.result)]_vars
    /\ [][\A w \in Watchers : \A n \in DOMAIN runs[w] :
             (/\ runs[w][n].pc = "update_triage"
              /\ runs'[w] # runs[w])
                => \E m \in RowsOf(seen_items',
                                    runs[w][n].new_items[runs[w][n].i].key) :
                      seen_items'[m].notified_at # None]_vars

\* C32 case: the second item of a batch of two different keys is dispatched,
\* its record stored, after the first one was
C32_Witness ==
    \E w \in Watchers : \E n \in DOMAIN runs[w] :
        /\ Len(runs[w][n].new_items) = 2
        /\ runs[w][n].new_items[1].key # runs[w][n].new_items[2].key
        /\ runs[w][n].dispatched = KeySeq(runs[w][n].new_items)
        /\ \A k \in KeysIn(runs[w][n].new_items) : is_seen(seen_items, k)

(***************************************************************************)
(* The life of a run.                                                      *)
(***************************************************************************)

\* C33: every run goes Idle -> Running -> Success or Failed -> Idle: a run
\* that returns has recorded exactly one outcome in watcher_state; a
\* started run of a watcher ends, which leaves the watcher idle; and, a
\* failed run leaving the job scheduled, every watcher is run again and
\* again whatever failed in its runs or in the runs of the other watcher.
C33_RunLifecycle ==
    /\ [](\A w \in Watchers : \A n \in DOMAIN runs[w] :
             runs[w][n].pc = "done"
                => runs[w][n].recorded = 1)
    /\ \A w \in Watchers : (runs[w] # <<>>) ~> (runs[w] = <<>>)
    /\ \A w \in Watchers : []<>(runs[w] # <<>>)

(***************************************************************************)
(* The retry wrapper for every max_attempts.                               *)
(***************************************************************************)

\* C39: for every max_attempts, zero and negative values included, the
\* wrapper calls the operation at least once and at most
\* max(max_attempts, 1) times, and it ends by returning the operation's
\* result or by raising an exception the operation raised.
C39_RetryAnyMaxAttempts ==
    /\ Calls(rt.events) <= IF rt.max_attempts > 1 THEN rt.max_attempts ELSE 1
    /\ rt.pc \in {"returned", "raised"} => Calls(rt.events) >= 1
    /\ rt.pc = "returned" => rt.returned = Some(Calls(rt.events))
    /\ rt.pc = "raised"
          => \E k \in DOMAIN rt.events :
                /\ rt.events[k].ev = "call"
                /\ rt.events[k].outcome \in {"retryable", "other"}
                /\ rt.raised =
                      Some(Exc(rt.events[k].outcome,
                               Calls(SubSeq(rt.events, 1, k))))

(***************************************************************************)
(* Two instances on one store.                                             *)
(***************************************************************************)

\* C34: with two scheduler instances on the same store, the store never
\* holds two records for one identity key, whatever the interleaving of
\* their runs (that both instances can dispatch the same item is
\* C34_Witness).
C34_TwoInstancesOneRecord ==
    \A key \in KeysOf(job) : Cardinality(RowsOf(seen_items, key)) <= 1

\* C34 case: both instances returned the issue from check() before either
\* stored it, each has dispatched its notification, and the store holds one
\* record for it
C34_Witness ==
    LET key == IdKey("github", "repo#issue1", "issue")
    IN  /\ Len(runs[job]) = 2
        /\ \E a \in DOMAIN runs[job][1].dispatched :
              runs[job][1].dispatched[a] = key
        /\ \E b \in DOMAIN runs[job][2].dispatched :
              runs[job][2].dispatched[b] = key
        /\ Cardinality(RowsOf(seen_items, key)) = 1

(***************************************************************************)
(* Delivery of item notifications.                                         *)
(***************************************************************************)

\* C35: within one instance no identity key has an item notification
\* dispatched more than once: a step of a run that dispatches the
\* notification of an item finds that the run has not dispatched one for
\* the same key, and that update_triage has not yet been executed for the
\* record of that key (it is executed before every dispatch), so that no
\* earlier cycle and no earlier item of the batch dispatched one either.
C35_DispatchedOnce ==
    [][\A w \in Watchers : \A n \in DOMAIN runs[w] :
          (/\ n \in DOMAIN runs'[w]
           /\ runs'[w][n].dispatched # runs[w][n].dispatched)
             => LET r == runs[w][n]
                    key == r.new_items[r.i].key
                IN  /\ \A a \in DOMAIN r.dispatched : r.dispatched[a] # key
                    /\ ~ TriageWritten(key)]_vars

\* C36: an item stored in a cycle that is not first-run-suppressed has a
\* dispatch attempted for it.  Once stored it is filtered out of every
\* later batch, so the attempt must come in the cycle that stored it: when
\* a run that is not suppressed returns, every key of its batch that is
\* stored has had its notification handed to _send_notification by this
\* run.
C36_AtLeastOnce ==
    \A w \in Watchers : \A n \in DOMAIN runs[w] :
        LET r == runs[w][n]
        IN  (r.pc = "done" /\ ~ suppressed(r.first_run, first_run_notify))
               => \A k \in KeysIn(r.new_items) :
                     is_seen(seen_items, k)
                        => \E a \in DOMAIN r.dispatched : r.dispatched[a] = k

\* C37: notified_at of a record is set only if a notification of the item
\* was dispatched: a record stored by a cycle that is first-run-suppressed,
\* or by a cycle that failed before the dispatch of the item, has no
\* notified_at.  The keys of a batch have no record when check() returns,
\* so a record of a key of the batch is the work of the run, and its
\* notified_at is set only if the run has dispatched that key.
C37_NotifiedAtMeansDispatched ==
    \A w \in Watchers : \A n \in DOMAIN runs[w] :
        LET r == runs[w][n]
        IN  r.pc \in {"process_item", "uws_read", "uws_write",
                      "get_failures", "notify_failure", "done"}
               => \A k \in KeysIn(r.new_items) :
                     TriageWritten(k)
                        => \E a \in DOMAIN r.dispatched : r.dispatched[a] = k

(***************************************************************************)
(* The failure count under concurrent runs.                                *)
(***************************************************************************)

\* C38: no failure increment is lost in one instance.  update_watcher_state
\* reads the row and writes it in two statements; between the two no other
\* run changes the row it read (runs of one watcher do not overlap, runs of
\* other watchers write their own row), the write of a failed run leaves
\* the stored count one above what the store held, and so k failed runs in
\* a row have raised consecutive_failures by exactly k, whatever the runs
\* of the other watcher did meanwhile.
C38_NoLostIncrement ==
    /\ [](\A w \in Watchers :
             /\ \A n \in DOMAIN runs[w] :
                   runs[w][n].pc = "uws_write"
                      => runs[w][n].existing = get_watcher_state(watcher_state, w)
             /\ runs[w] = <<>>
                   => get_consecutive_failures(watcher_state, w) = failedSince[w])
    /\ [][\A w \in Watchers : \A n \in DOMAIN runs[w] :
             (/\ runs[w][n].pc = "uws_write"
              /\ ~ runs[w][n].successful
              /\ runs'[w] # runs[w])
                => get_consecutive_failures(watcher_state', w)
                      = get_consecutive_failures(watcher_state, w) + 1]_vars

\* C38 case: both watchers are between the read and the write of
\* update_watcher_state, GitHubWatcher recording its third failure in a row
\* and ForgeWatcher its second
C38_Witness ==
    /\ Len(runs["GitHubWatcher"]) = 1
    /\ Len(runs["ForgeWatcher"]) = 1
    /\ runs["GitHubWatcher"][1].pc = "uws_write"
    /\ runs["ForgeWatcher"][1].pc = "uws_write"
    /\ ~ runs["GitHubWatcher"][1].successful
    /\ ~ runs["ForgeWatcher"][1].successful
    /\ failedSince["GitHubWatcher"] = 2
    /\ failedSince["ForgeWatcher"] = 1
    /\ get_consecutive_failures(watcher_state, "GitHubWatcher") = 2
    /\ get_consecutive_failures(watcher_state, "ForgeWatcher") = 1

====
